---- MODULE Spec2Model ----
(***************************************************************************)
(* imap-codec: the fragmenting encoder (imap-codec/src/codec/encode.rs)    *)
(* and the stateful server-side stream decoder (src/tokio/mod.rs).         *)
(*                                                                         *)
(* A byte is a one-character string; CR and LF are the two line bytes.     *)
(* Byte strings are sequences of bytes.  Offsets in the Rust code are      *)
(* 0-based; sequences here are 1-based, so buf[i] of the code is buf[i+1]. *)
(***************************************************************************)
EXTENDS Integers, Sequences, FiniteSets, TLC

VARIABLES
    wire,              \* bytes the peer has not yet written into src
    src,               \* the BytesMut handed to decode
    state,             \* ImapServerCodec.state
    max_literal_size,  \* ImapServerCodec.max_literal_size
    last,              \* the latest decode call: what it saw and what it returned
    outs,              \* every non-None result of decode so far, in order
    input,             \* what the peer set out to send (never changes)
    disciplined,       \* decode was drained to None before every append so far
    fed,               \* how much of the stream src held at the first decode call
    msg,               \* the message handed to Encode::encode
    items,             \* Encoded.items
    taken,             \* fragments the iterator has yielded so far
    lastNext,          \* what the latest next() returned
    dumped,            \* what dump() returned, once it was called
    logged,            \* what format!("{:?}", msg) gave, once it was called
    dst,               \* the BytesMut handed to Encoder::encode
    encoded            \* the latest Encoder::encode call, and how many there were

vars == << wire, src, state, max_literal_size, last, outs, input, disciplined, fed,
           msg, items, taken, lastNext, dumped, logged, dst, encoded >>

decVars == << wire, src, state, max_literal_size, last, outs, input, disciplined, fed >>
encVars == << msg, items, taken, lastNext, dumped, logged >>
srvVars == << dst, encoded >>

-----------------------------------------------------------------------------
(* Bytes and numbers *)

CR == "CR"
LF == "LF"
CRLF == << CR, LF >>

Digits == << "0", "1", "2", "3", "4", "5", "6", "7", "8", "9" >>

IsDigit(b) == \E i \in 1..10 : Digits[i] = b

DigitVal(b) == (CHOOSE i \in 1..10 : Digits[i] = b) - 1

RECURSIVE to_string(_)
to_string(n) ==
    IF n < 10 THEN << Digits[n + 1] >>
    ELSE Append(to_string(n \div 10), Digits[(n % 10) + 1])

RECURSIVE Concat(_)
Concat(ss) == IF ss = << >> THEN << >> ELSE Head(ss) \o Concat(Tail(ss))

Max(a, b) == IF a >= b THEN a ELSE b

-----------------------------------------------------------------------------
(* EncodeContext and Fragment *)

NoMode == "-"

Line(data) == [kind |-> "Line", data |-> data, mode |-> NoMode]

Literal(data, mode) == [kind |-> "Literal", data |-> data, mode |-> mode]

EncodeContext_new == [accumulator |-> << >>, items |-> << >>]

write_all(ctx, buf) == [ctx EXCEPT !.accumulator = @ \o buf]

push_line(ctx) ==
    [accumulator |-> << >>, items |-> Append(ctx.items, Line(ctx.accumulator))]

push_literal(ctx, mode) ==
    [accumulator |-> << >>,
     items |-> Append(ctx.items, Literal(ctx.accumulator, mode))]

\* A variant that forgets the bytes still in the accumulator.
into_items_no_flush(ctx) == ctx.items

into_items(ctx) ==
    IF ctx.accumulator # << >>
    THEN Append(ctx.items, Line(ctx.accumulator))
    ELSE ctx.items

-----------------------------------------------------------------------------
(* Leaf encoders *)

\* A variant that ends the announcing line at the closing brace.
encode_Literal_bare_announcement(val, ctx) ==
    LET n == to_string(Len(val.data))
        announced ==
            IF val.mode = "Sync"
            THEN write_all(ctx, << "{" >> \o n \o << "}" >>)
            ELSE write_all(ctx, << "{" >> \o n \o << "+", "}" >>)
        body == write_all(push_line(announced), val.data)
    IN  push_literal(body, val.mode)

\* A variant that announces every literal as a synchronizing one.
encode_Literal_always_sync(val, ctx) ==
    LET n == to_string(Len(val.data))
        announced == write_all(ctx, << "{" >> \o n \o << "}" >> \o CRLF)
        body == write_all(push_line(announced), val.data)
    IN  push_literal(body, val.mode)

encode_Literal(val, ctx) ==
    LET n == to_string(Len(val.data))
        announced ==
            IF val.mode = "Sync"
            THEN write_all(ctx, << "{" >> \o n \o << "}" >> \o CRLF)
            ELSE write_all(ctx, << "{" >> \o n \o << "+", "}" >> \o CRLF)
        body == write_all(push_line(announced), val.data)
    IN  push_literal(body, val.mode)

encode_Atom(val, ctx) == write_all(ctx, val.data)

encode_AString(val, ctx) ==
    IF val.kind = "Atom" THEN encode_Atom(val, ctx) ELSE encode_Literal(val, ctx)

encode_Mailbox(val, ctx) ==
    IF val.kind = "Inbox"
    THEN write_all(ctx, << "I", "N", "B", "O", "X" >>)
    ELSE encode_AString(val.inner, ctx)

encode_Tag(val, ctx) == write_all(ctx, val)

-----------------------------------------------------------------------------
(* Responses, greetings and continuation requests *)

\* Option<T>
None == [some |-> FALSE]
Some(v) == [some |-> TRUE, val |-> v]

\* impl Encoder for u32: ctx.write_all(self.to_string().as_bytes())
encode_u32(n, ctx) == write_all(ctx, to_string(n))

\* impl Encoder for NonZeroU32: write!(ctx, "{self}")
encode_NonZeroU32(n, ctx) == write_all(ctx, to_string(n))

\* escape_quoted: `\` and `"` get a backslash in front
RECURSIVE escape_quoted(_)
escape_quoted(s) ==
    IF s = << >> THEN << >>
    ELSE IF Head(s) \in { "\\", "\"" }
    THEN << "\\", Head(s) >> \o escape_quoted(Tail(s))
    ELSE << Head(s) >> \o escape_quoted(Tail(s))

\* write!(ctx, "\"{}\"", escape_quoted(self.inner()))
encode_Quoted(val, ctx) == write_all(ctx, << "\"" >> \o escape_quoted(val.data) \o << "\"" >>)

encode_IString(val, ctx) ==
    IF val.kind = "Literal" THEN encode_Literal(val, ctx) ELSE encode_Quoted(val, ctx)

encode_NString(val, ctx) ==
    IF val.some THEN encode_IString(val.val, ctx) ELSE write_all(ctx, << "N", "I", "L" >>)

encode_Charset(val, ctx) ==
    IF val.kind = "Atom" THEN encode_Atom(val, ctx) ELSE encode_Quoted(val, ctx)

encode_Text(val, ctx) == write_all(ctx, val)

\* The element types handed to join_serializable and the fields of a
\* parenthesized tuple are encoded by their own impl Encoder.
RECURSIVE encode_item(_, _)

\* A variant that writes the separator behind every element.
RECURSIVE join_serializable_trailing(_, _, _)
join_serializable_trailing(elements, sep, ctx) ==
    IF elements = << >> THEN ctx
    ELSE CHOOSE out \in { join_serializable_trailing(Tail(elements), sep, c) :
                            c \in { write_all(encode_item(Head(elements), ctx), sep) } } : TRUE

\* utils::join_serializable: every element but the last is followed by sep;
\* the context an element leaves behind is the one the next element gets
RECURSIVE join_serializable(_, _, _)
join_serializable(elements, sep, ctx) ==
    IF elements = << >> THEN ctx
    ELSE IF Len(elements) = 1 THEN encode_item(elements[1], ctx)
    ELSE CHOOSE out \in { join_serializable(Tail(elements), sep, c) :
                            c \in { write_all(encode_item(Head(elements), ctx), sep) } } : TRUE

\* a field of a tuple, with the type whose encoder it is given to
Field(ty, v) == [ty |-> ty, v |-> v]

\* impl Encoder for Address: ( name SP adl SP mailbox SP host )
encode_Address(a, ctx) ==
    write_all(join_serializable(<< Field("NString", a.name), Field("NString", a.adl),
                                   Field("NString", a.mailbox), Field("NString", a.host) >>,
                                << " " >>, write_all(ctx, << "(" >>)),
              << ")" >>)

\* A variant that writes an empty list as `()`.
encode_List1OrNil_parens(list, sep, ctx) ==
    write_all(join_serializable(list, sep, write_all(ctx, << "(" >>)), << ")" >>)

\* impl Encoder for List1OrNil: `(`, every item but the last followed by
\* the separator, the last item, `)`; NIL when split_last() is None
encode_List1OrNil(list, sep, ctx) ==
    IF list # << >>
    THEN write_all(join_serializable(list, sep, write_all(ctx, << "(" >>)), << ")" >>)
    ELSE write_all(ctx, << "N", "I", "L" >>)

\* impl Encoder for Envelope: the ten fields, one space between neighbours
encode_Envelope(env, ctx) ==
    write_all(join_serializable(<< Field("NString", env.date), Field("NString", env.subject),
                                   Field("List1OrNil", env.from), Field("List1OrNil", env.sender),
                                   Field("List1OrNil", env.reply_to), Field("List1OrNil", env.to),
                                   Field("List1OrNil", env.cc), Field("List1OrNil", env.bcc),
                                   Field("NString", env.in_reply_to),
                                   Field("NString", env.message_id) >>,
                                << " " >>, write_all(ctx, << "(" >>)),
              << ")" >>)

\* the (attribute, value) pairs as the strings they are written as
RECURSIVE attribute_values(_)
attribute_values(list) ==
    IF list = << >> THEN << >>
    ELSE << Field("IString", Head(list).attribute), Field("IString", Head(list).value) >>
         \o attribute_values(Tail(list))

\* impl Encoder for List1AttributeValueOrNil
encode_List1AttributeValueOrNil(list, ctx) ==
    IF list # << >>
    THEN write_all(join_serializable(attribute_values(list), << " " >>, write_all(ctx, << "(" >>)), << ")" >>)
    ELSE write_all(ctx, << "N", "I", "L" >>)

\* impl Encoder for BasicFields
encode_BasicFields(b, ctx) ==
    join_serializable(<< Field("List1AttributeValueOrNil", b.parameter_list),
                         Field("NString", b.id), Field("NString", b.description),
                         Field("IString", b.content_transfer_encoding),
                         Field("u32", b.size) >>,
                      << " " >>, ctx)

\* impl Encoder for Body: SpecificFields::Basic and SpecificFields::Text
encode_Body(body, ctx) ==
    IF body.specific.kind = "Basic"
    THEN join_serializable(<< Field("IString", body.specific.type),
                              Field("IString", body.specific.subtype),
                              Field("BasicFields", body.basic) >>,
                           << " " >>, ctx)
    ELSE join_serializable(<< Field("IString", body.specific.subtype),
                              Field("BasicFields", body.basic),
                              Field("u32", body.specific.number_of_lines) >>,
                           << " " >>, write_all(ctx, << "\"", "T", "E", "X", "T", "\"", " " >>))

\* impl Encoder for Disposition, with no language behind it
encode_Disposition(d, ctx) ==
    IF d.disposition.some
    THEN write_all(join_serializable(<< Field("IString", d.disposition.val.s),
                                        Field("List1AttributeValueOrNil", d.disposition.val.param) >>,
                                     << " " >>, write_all(ctx, << "(" >>)),
                   << ")" >>)
    ELSE write_all(ctx, << "N", "I", "L" >>)

\* impl Encoder for SinglePartExtensionData: md5, then SP disposition if any
encode_SinglePartExtensionData(ext, ctx) ==
    IF ext.tail.some
    THEN join_serializable(<< Field("NString", ext.md5), Field("Disposition", ext.tail.val) >>,
                           << " " >>, ctx)
    ELSE encode_NString(ext.md5, ctx)

\* impl Encoder for BodyStructure: BodyStructure::Single
encode_BodyStructure(bs, ctx) ==
    IF bs.extension_data.some
    THEN write_all(join_serializable(<< Field("Body", bs.body),
                                        Field("SinglePartExtensionData", bs.extension_data.val) >>,
                                     << " " >>, write_all(ctx, << "(" >>)),
                   << ")" >>)
    ELSE write_all(encode_Body(bs.body, write_all(ctx, << "(" >>)), << ")" >>)

\* MessageDataItem::BodyExt { section: None, origin: None, data }, ::Body,
\* ::BodyStructure, ::Envelope and ::Uid
encode_MessageDataItem(item, ctx) ==
    CASE item.kind = "BodyExt" ->
            encode_NString(item.data, write_all(write_all(write_all(ctx, << "B", "O", "D", "Y", "[" >>), << "]" >>), << " " >>))
      [] item.kind = "Body" -> encode_BodyStructure(item.body, write_all(ctx, << "B", "O", "D", "Y", " " >>))
      [] item.kind = "BodyStructure" ->
            encode_BodyStructure(item.body, write_all(ctx, << "B", "O", "D", "Y", "S", "T", "R", "U", "C", "T", "U", "R", "E", " " >>))
      [] item.kind = "Envelope" -> encode_Envelope(item.envelope, write_all(ctx, << "E", "N", "V", "E", "L", "O", "P", "E", " " >>))
      [] item.kind = "Uid" -> write_all(ctx, << "U", "I", "D", " " >> \o to_string(item.uid))

encode_MessageDataItemName(item, ctx) ==
    CASE item.name = "Body" -> write_all(ctx, << "B", "O", "D", "Y" >>)
      [] item.name = "Envelope" -> write_all(ctx, << "E", "N", "V", "E", "L", "O", "P", "E" >>)
      [] item.name = "Flags" -> write_all(ctx, << "F", "L", "A", "G", "S" >>)
      [] item.name = "Uid" -> write_all(ctx, << "U", "I", "D" >>)

\* I::encode_ctx of the element and field types
encode_item(item, ctx) ==
    CASE item.ty = "NonZeroU32" -> encode_NonZeroU32(item.n, ctx)
      [] item.ty = "Charset" -> encode_Charset(item, ctx)
      [] item.ty = "MessageDataItem" -> encode_MessageDataItem(item, ctx)
      [] item.ty = "MessageDataItemName" -> encode_MessageDataItemName(item, ctx)
      [] item.ty = "Address" -> encode_Address(item, ctx)
      [] item.ty = "u32" -> encode_u32(item.v, ctx)
      [] item.ty = "NString" -> encode_NString(item.v, ctx)
      [] item.ty = "IString" -> encode_IString(item.v, ctx)
      [] item.ty = "List1OrNil" -> encode_List1OrNil(item.v, << >>, ctx)
      [] item.ty = "List1AttributeValueOrNil" -> encode_List1AttributeValueOrNil(item.v, ctx)
      [] item.ty = "BasicFields" -> encode_BasicFields(item.v, ctx)
      [] item.ty = "Body" -> encode_Body(item.v, ctx)
      [] item.ty = "Disposition" -> encode_Disposition(item.v, ctx)
      [] item.ty = "SinglePartExtensionData" -> encode_SinglePartExtensionData(item.v, ctx)

\* A variant that writes the parenthesized list even when it is empty.
encode_Code_parens(code, ctx) ==
    CASE code.kind = "Alert" -> write_all(ctx, << "A", "L", "E", "R", "T" >>)
      [] code.kind = "BadCharset" ->
            write_all(join_serializable(code.allowed, << " " >>,
                                        write_all(ctx, << "B", "A", "D", "C", "H", "A", "R", "S", "E", "T", " ", "(" >>)),
                      << ")" >>)

encode_Code(code, ctx) ==
    CASE code.kind = "Alert" -> write_all(ctx, << "A", "L", "E", "R", "T" >>)
      [] code.kind = "BadCharset" ->
            IF code.allowed = << >>
            THEN write_all(ctx, << "B", "A", "D", "C", "H", "A", "R", "S", "E", "T" >>)
            ELSE write_all(join_serializable(code.allowed, << " " >>,
                                             write_all(ctx, << "B", "A", "D", "C", "H", "A", "R", "S", "E", "T", " ", "(" >>)),
                           << ")" >>)

\* if let Some(code) = code { "[" code "] " }
encode_bracketed(code, ctx) ==
    IF code.some
    THEN write_all(encode_Code(code.val, write_all(ctx, << "[" >>)), << "]", " " >>)
    ELSE ctx

\* Status::encode_ctx, fn format_status
format_status(tag, status, code, comment, ctx) ==
    LET c1 == IF tag.some THEN encode_Tag(tag.val, ctx) ELSE write_all(ctx, << "*" >>)
        c2 == write_all(write_all(write_all(c1, << " " >>), status), << " " >>)
    IN  write_all(encode_Text(comment, encode_bracketed(code, c2)), CRLF)

encode_Status(st, ctx) ==
    CASE st.kind = "Ok" -> format_status(st.tag, << "O", "K" >>, st.code, st.text, ctx)
      [] st.kind = "No" -> format_status(st.tag, << "N", "O" >>, st.code, st.text, ctx)
      [] st.kind = "Bad" -> format_status(st.tag, << "B", "A", "D" >>, st.code, st.text, ctx)
      [] st.kind = "Bye" -> format_status(None, << "B", "Y", "E" >>, st.code, st.text, ctx)

encode_GreetingKind(kind, ctx) ==
    CASE kind = "Ok" -> write_all(ctx, << "O", "K" >>)
      [] kind = "PreAuth" -> write_all(ctx, << "P", "R", "E", "A", "U", "T", "H" >>)
      [] kind = "Bye" -> write_all(ctx, << "B", "Y", "E" >>)

encode_Greeting(g, ctx) ==
    LET c1 == write_all(encode_GreetingKind(g.kind, write_all(ctx, << "*", " " >>)), << " " >>)
    IN  write_all(encode_Text(g.text, encode_bracketed(g.code, c1)), CRLF)

\* A variant whose SEARCH writes the separating space before an empty list too.
encode_Data_trailing_space(data, ctx) ==
    LET body ==
            CASE data.kind = "Search" ->
                    join_serializable(data.seqs, << " " >>, write_all(ctx, << "*", " ", "S", "E", "A", "R", "C", "H", " " >>))
              [] data.kind = "Fetch" ->
                    write_all(join_serializable(data.items, << " " >>,
                                  write_all(ctx, << "*", " " >> \o to_string(data.seq) \o << " ", "F", "E", "T", "C", "H", " ", "(" >>)),
                              << ")" >>)
    IN  write_all(body, CRLF)

\* Data::Search and Data::Fetch, then the CRLF behind the match
encode_Data(data, ctx) ==
    LET body ==
            CASE data.kind = "Search" ->
                    IF data.seqs = << >>
                    THEN write_all(ctx, << "*", " ", "S", "E", "A", "R", "C", "H" >>)
                    ELSE join_serializable(data.seqs, << " " >>, write_all(ctx, << "*", " ", "S", "E", "A", "R", "C", "H", " " >>))
              [] data.kind = "Fetch" ->
                    write_all(join_serializable(data.items, << " " >>,
                                  write_all(ctx, << "*", " " >> \o to_string(data.seq) \o << " ", "F", "E", "T", "C", "H", " ", "(" >>)),
                              << ")" >>)
    IN  write_all(body, CRLF)

\* The standard base64 alphabet (base64::engine::general_purpose::STANDARD)
Base64Alphabet ==
    << "A", "B", "C", "D", "E", "F", "G", "H", "I", "J", "K", "L", "M", "N", "O", "P",
       "Q", "R", "S", "T", "U", "V", "W", "X", "Y", "Z", "a", "b", "c", "d", "e", "f",
       "g", "h", "i", "j", "k", "l", "m", "n", "o", "p", "q", "r", "s", "t", "u", "v",
       "w", "x", "y", "z", "0", "1", "2", "3", "4", "5", "6", "7", "8", "9", "+", "/" >>

\* the bytes an initial response is made of, with their values
ByteValue(b) ==
    CASE b = "NUL" -> 0
      [] b = "a" -> 97 [] b = "c" -> 99 [] b = "e" -> 101 [] b = "i" -> 105
      [] b = "l" -> 108 [] b = "p" -> 112 [] b = "s" -> 115
      [] b = "x" -> 120 [] b = "y" -> 121

Base64Char(v) == Base64Alphabet[v + 1]

\* base64.encode: three bytes become four characters, the rest is padded with `=`
RECURSIVE base64_encode(_)
base64_encode(bytes) ==
    IF bytes = << >> THEN << >>
    ELSE IF Len(bytes) = 1
    THEN << Base64Char(ByteValue(bytes[1]) \div 4),
            Base64Char((ByteValue(bytes[1]) % 4) * 16), "=", "=" >>
    ELSE IF Len(bytes) = 2
    THEN << Base64Char(ByteValue(bytes[1]) \div 4),
            Base64Char((ByteValue(bytes[1]) % 4) * 16 + ByteValue(bytes[2]) \div 16),
            Base64Char((ByteValue(bytes[2]) % 16) * 4), "=" >>
    ELSE << Base64Char(ByteValue(bytes[1]) \div 4),
            Base64Char((ByteValue(bytes[1]) % 4) * 16 + ByteValue(bytes[2]) \div 16),
            Base64Char((ByteValue(bytes[2]) % 16) * 4 + ByteValue(bytes[3]) \div 64),
            Base64Char(ByteValue(bytes[3]) % 64) >>
         \o base64_encode(SubSeq(bytes, 4, Len(bytes)))

\* A variant that pads an empty payload with `=`, as SASL-IR does.
encode_Continue_pad(c, ctx) ==
    IF c.kind = "Base64"
    THEN write_all(write_all(write_all(ctx, << "+", " " >>),
                             IF c.data = << >> THEN << "=" >> ELSE base64_encode(c.data)),
                   CRLF)
    ELSE IF c.code.some
    THEN write_all(encode_Text(c.text,
                       write_all(encode_Code(c.code.val, write_all(ctx, << "+", " ", "[" >>)), << "]", " " >>)),
                   CRLF)
    ELSE write_all(encode_Text(c.text, write_all(ctx, << "+", " " >>)), CRLF)

\* Continue::Basic (with and without code) and Continue::Base64
encode_Continue(c, ctx) ==
    IF c.kind = "Base64"
    THEN write_all(write_all(write_all(ctx, << "+", " " >>), base64_encode(c.data)), CRLF)
    ELSE IF c.code.some
    THEN write_all(encode_Text(c.text,
                       write_all(encode_Code(c.code.val, write_all(ctx, << "+", " ", "[" >>)), << "]", " " >>)),
                   CRLF)
    ELSE write_all(encode_Text(c.text, write_all(ctx, << "+", " " >>)), CRLF)

-----------------------------------------------------------------------------
(* Commands *)

\* impl Display for AuthMechanism
encode_AuthMechanism(mechanism, ctx) ==
    CASE mechanism = "Plain" -> write_all(ctx, << "P", "L", "A", "I", "N" >>)
      [] mechanism = "Login" -> write_all(ctx, << "L", "O", "G", "I", "N" >>)

\* A variant without the RFC 4959 pad for a zero-length response.
encode_initial_response_no_pad(ir, ctx) ==
    IF ir.some
    THEN write_all(write_all(ctx, << " " >>), base64_encode(ir.val))
    ELSE ctx

\* if let Some(ir) = initial_response { " " then "=" or base64 }
encode_initial_response(ir, ctx) ==
    IF ir.some
    THEN IF ir.val = << >>
         THEN write_all(write_all(ctx, << " " >>), << "=" >>)
         ELSE write_all(write_all(ctx, << " " >>), base64_encode(ir.val))
    ELSE ctx

\* impl Encoder for SeqOrUid / Sequence / SequenceSet
encode_SeqOrUid(v, ctx) ==
    IF v.kind = "Asterisk" THEN write_all(ctx, << "*" >>) ELSE write_all(ctx, to_string(v.n))

encode_Sequence(seq, ctx) ==
    IF seq.kind = "Single" THEN encode_SeqOrUid(seq.from, ctx)
    ELSE encode_SeqOrUid(seq.to, write_all(encode_SeqOrUid(seq.from, ctx), << ":" >>))

RECURSIVE encode_SequenceSet(_, _)
encode_SequenceSet(set, ctx) ==
    IF Len(set) = 1 THEN encode_Sequence(set[1], ctx)
    ELSE encode_SequenceSet(Tail(set), write_all(encode_Sequence(Head(set), ctx), << "," >>))

\* impl Display for Macro
encode_Macro(m, ctx) ==
    CASE m = "All" -> write_all(ctx, << "A", "L", "L" >>)
      [] m = "Fast" -> write_all(ctx, << "F", "A", "S", "T" >>)
      [] m = "Full" -> write_all(ctx, << "F", "U", "L", "L" >>)

\* A variant that parenthesizes every item-name list.
encode_MacroOrMessageDataItemNames_parens(val, ctx) ==
    IF val.kind = "Macro" THEN encode_Macro(val.macro, ctx)
    ELSE write_all(join_serializable(val.item_names, << " " >>, write_all(ctx, << "(" >>)),
                   << ")" >>)

encode_MacroOrMessageDataItemNames(val, ctx) ==
    IF val.kind = "Macro" THEN encode_Macro(val.macro, ctx)
    ELSE IF Len(val.item_names) = 1 THEN encode_item(val.item_names[1], ctx)
    ELSE write_all(join_serializable(val.item_names, << " " >>, write_all(ctx, << "(" >>)),
                   << ")" >>)

encode_CommandBody(body, ctx) ==
    CASE body.verb = "Noop" -> write_all(ctx, << "N", "O", "O", "P" >>)
      [] body.verb = "Select" ->
            encode_Mailbox(body.mailbox,
                write_all(write_all(ctx, << "S", "E", "L", "E", "C", "T" >>), << " " >>))
      [] body.verb = "Authenticate" ->
            encode_initial_response(body.initial_response,
                encode_AuthMechanism(body.mechanism,
                    write_all(write_all(ctx, << "A", "U", "T", "H", "E", "N", "T", "I",
                                                 "C", "A", "T", "E" >>),
                              << " " >>)))
      [] body.verb = "Fetch" ->
            LET c0 == IF body.uid
                      THEN write_all(ctx, << "U", "I", "D", " ", "F", "E", "T", "C", "H", " " >>)
                      ELSE write_all(ctx, << "F", "E", "T", "C", "H", " " >>)
                c1 == write_all(encode_SequenceSet(body.sequence_set, c0), << " " >>)
            IN  encode_MacroOrMessageDataItemNames(body.macro_or_item_names, c1)
      [] body.verb = "Login" ->
            LET c1 == write_all(write_all(ctx, << "L", "O", "G", "I", "N" >>), << " " >>)
                c2 == write_all(encode_AString(body.username, c1), << " " >>)
            IN  encode_AString(body.password, c2)

encode_Command(cmd, ctx) ==
    LET c1 == write_all(encode_Tag(cmd.tag, ctx), << " " >>)
    IN  write_all(encode_CommandBody(cmd.body, c1), CRLF)

-----------------------------------------------------------------------------
(* Messages *)

encode_Response(r, ctx) ==
    CASE r.ty = "Status" -> encode_Status(r, ctx)
      [] r.ty = "Data" -> encode_Data(r, ctx)
      [] r.ty = "Continue" -> encode_Continue(r, ctx)

\* T::encode_ctx by the type of the message
encode_ctx(m, ctx) ==
    IF "body" \in DOMAIN m THEN encode_Command(m, ctx)
    ELSE IF m.ty = "Greeting" THEN encode_Greeting(m, ctx)
    ELSE encode_Response(m, ctx)

encode(m) == into_items(encode_ctx(m, EncodeContext_new))

RECURSIVE dump(_)
dump(its) == IF its = << >> THEN << >> ELSE Head(its).data \o dump(Tail(its))

-----------------------------------------------------------------------------
(* The command parser (crate::command::command), by its contract:          *)
(* command = tag SP body CRLF, one command through its terminating CRLF,   *)
(* the unconsumed tail returned as rem.  Bodies: NOOP, SELECT mailbox,     *)
(* LOGIN astring SP astring; astring = 1*ASTRING-CHAR / literal.  Each     *)
(* step hands what it has read to the next as parameters.                  *)

Lower == << "a", "b", "c", "d", "e", "f", "g", "h", "i", "j", "k", "l", "m",
            "n", "o", "p", "q", "r", "s", "t", "u", "v", "w", "x", "y", "z" >>
Upper == << "A", "B", "C", "D", "E", "F", "G", "H", "I", "J", "K", "L", "M",
            "N", "O", "P", "Q", "R", "S", "T", "U", "V", "W", "X", "Y", "Z" >>

IsLower(b) == \E i \in 1..26 : Lower[i] = b
IsAlpha(b) == \E i \in 1..26 : Lower[i] = b \/ Upper[i] = b

to_ascii_uppercase(b) ==
    IF IsLower(b) THEN Upper[CHOOSE i \in 1..26 : Lower[i] = b] ELSE b

UpperAll(s) == [i \in 1..Len(s) |-> to_ascii_uppercase(s[i])]

Drop(s, n) == SubSeq(s, n + 1, Len(s))
Take(s, n) == SubSeq(s, 1, n)
StartsWith(s, p) == Len(s) >= Len(p) /\ SubSeq(s, 1, Len(p)) = p

MinOf(S) == CHOOSE x \in S : \A y \in S : x <= y
MaxOf(S) == CHOOSE x \in S : \A y \in S : y <= x

AtomSpecials == { " ", "(", ")", "{", "%", "*", "\"", "\\", CR, LF }
IsAStringChar(b) == b \notin AtomSpecials
IsTagChar(b) == b \notin AtomSpecials /\ b # "+"

\* Length of the longest prefix of s that avoids the positions in bad.
SpanTo(s, bad) == IF bad = {} THEN Len(s) ELSE MinOf(bad) - 1

DigitSpan(s) == SpanTo(s, { i \in 1..Len(s) : ~IsDigit(s[i]) })
AlphaSpan(s) == SpanTo(s, { i \in 1..Len(s) : ~IsAlpha(s[i]) })
AStringSpan(s) == SpanTo(s, { i \in 1..Len(s) : ~IsAStringChar(s[i]) })
TagSpan(s) == SpanTo(s, { i \in 1..Len(s) : ~IsTagChar(s[i]) })

RECURSIVE DigitsVal(_)
DigitsVal(ds) ==
    IF ds = << >> THEN 0
    ELSE 10 * DigitsVal(SubSeq(ds, 1, Len(ds) - 1)) + DigitVal(ds[Len(ds)])

NoParse == [ok |-> FALSE, val |-> << >>, rem |-> << >>]

Parsed(val, rem) == [ok |-> TRUE, val |-> val, rem |-> rem]

Atom(data) == [kind |-> "Atom", data |-> data, mode |-> NoMode]

literal_sized(body, n, mode) ==
    IF Len(body) >= n
    THEN Parsed(Literal(Take(body, n), mode), Drop(body, n))
    ELSE NoParse

literal_close(rest, n, mode) ==
    IF StartsWith(rest, << "}", CR, LF >>)
    THEN literal_sized(Drop(rest, 3), n, mode)
    ELSE NoParse

\* rest follows the opening brace and starts with d digits (at most nine
\* are read here, so that the number stays a machine integer of the model)
literal_number(rest, d) ==
    IF d < 1 \/ d > 9 THEN NoParse
    ELSE IF StartsWith(Drop(rest, d), << "+" >>)
    THEN literal_close(Drop(rest, d + 1), DigitsVal(Take(rest, d)), "NonSync")
    ELSE literal_close(Drop(rest, d), DigitsVal(Take(rest, d)), "Sync")

literal(s) ==
    IF StartsWith(s, << "{" >>)
    THEN literal_number(Drop(s, 1), DigitSpan(Drop(s, 1)))
    ELSE NoParse

astring_atom(s, n) == IF n = 0 THEN NoParse ELSE Parsed(Atom(Take(s, n)), Drop(s, n))

astring(s) ==
    IF StartsWith(s, << "{" >>) THEN literal(s) ELSE astring_atom(s, AStringSpan(s))

mailbox_of(a) ==
    IF ~a.ok THEN NoParse
    ELSE IF a.val.kind = "Atom" /\ UpperAll(a.val.data) = << "I", "N", "B", "O", "X" >>
    THEN Parsed([kind |-> "Inbox"], a.rem)
    ELSE Parsed([kind |-> "Other", inner |-> a.val], a.rem)

mailbox(s) == mailbox_of(astring(s))

select_of(mbx) ==
    IF mbx.ok THEN Parsed([verb |-> "Select", mailbox |-> mbx.val], mbx.rem) ELSE NoParse

login_pass(user, pass) ==
    IF pass.ok
    THEN Parsed([verb |-> "Login", username |-> user, password |-> pass.val], pass.rem)
    ELSE NoParse

login_user(user) ==
    IF user.ok /\ StartsWith(user.rem, << " " >>)
    THEN login_pass(user.val, astring(Drop(user.rem, 1)))
    ELSE NoParse

\* rest follows the verb
body_verb(verb, rest) ==
    CASE verb = << "N", "O", "O", "P" >> -> Parsed([verb |-> "Noop"], rest)
      [] verb = << "S", "E", "L", "E", "C", "T" >> /\ StartsWith(rest, << " " >>) ->
            select_of(mailbox(Drop(rest, 1)))
      [] verb = << "L", "O", "G", "I", "N" >> /\ StartsWith(rest, << " " >>) ->
            login_user(astring(Drop(rest, 1)))
      [] OTHER -> NoParse

body_at(s, v) == body_verb(UpperAll(Take(s, v)), Drop(s, v))

command_body(s) == body_at(s, AlphaSpan(s))

command_end(tag, body) ==
    IF body.ok /\ StartsWith(body.rem, CRLF)
    THEN Parsed([tag |-> tag, body |-> body.val], Drop(body.rem, 2))
    ELSE NoParse

command_tagged(s, t) ==
    IF t >= 1 /\ StartsWith(Drop(s, t), << " " >>)
    THEN command_end(Take(s, t), command_body(Drop(s, t + 1)))
    ELSE NoParse

command(s) == command_tagged(s, TagSpan(s))

-----------------------------------------------------------------------------
(* ImapServerCodec: state and the helpers of decode *)

ReadLine(acc) == [kind |-> "ReadLine", to_consume_acc |-> acc, needed |-> 0]

ReadLiteral(acc, needed) ==
    [kind |-> "ReadLiteral", to_consume_acc |-> acc, needed |-> needed]

ImapServerCodec_new == ReadLine(0)

OkNone == [tag |-> "None", val |-> 0]
OkSome(v) == [tag |-> "Some", val |-> v]
ErrOf(k) == [tag |-> "Err", val |-> k]

saturating_sub(a, b) == IF a >= b THEN a - b ELSE 0

\* A variant that looks at the byte before the LF even when the LF is the
\* first byte inspected.
crlf_at_before(skip, buf, position) ==
    IF skip + position = 0 THEN ErrOf("NotCrLf")
    ELSE IF buf[skip + position] # CR THEN ErrOf("NotCrLf")
    ELSE OkSome(position + 1)

\* if buf[skip + position.saturating_sub(1)] != b'\r'
crlf_at(skip, buf, position) ==
    IF buf[skip + saturating_sub(position, 1) + 1] # CR
    THEN ErrOf("NotCrLf")
    ELSE OkSome(position + 1)

\* hits: the 0-based indices >= skip that hold LF
first_lf(skip, buf, hits) ==
    IF hits = {} THEN OkNone ELSE crlf_at(skip, buf, MinOf(hits) - skip)

\* buf.iter().skip(skip).position(|item| *item == b'\n')
find_crlf_inclusive(skip, buf) ==
    first_lf(skip, buf, { p \in 0..(Len(buf) - 1) : p >= skip /\ buf[p + 1] = LF })

\* braces: the 0-based indices below len - 1 that hold '{'; the loop
\* walks down from len - 2 and stops at the first one it meets
enclosing_from(line, braces) ==
    IF braces = {} THEN [tag |-> "Err", raw |-> << >>]
    ELSE [tag |-> "Some", raw |-> SubSeq(line, MaxOf(braces) + 2, Len(line) - 1)]

parse_literal_enclosing(line) ==
    IF Len(line) = 0 THEN [tag |-> "None", raw |-> << >>]
    ELSE IF line[Len(line)] # "}" THEN [tag |-> "None", raw |-> << >>]
    ELSE enclosing_from(line, { i \in 0..(Len(line) - 2) : line[i + 1] = "{" })

U32MaxDigits == << "4", "2", "9", "4", "9", "6", "7", "2", "9", "5" >>

RECURSIVE StripZeros(_)
StripZeros(ds) ==
    IF ds # << >> /\ Head(ds) = "0" THEN StripZeros(Tail(ds)) ELSE ds

\* ds > ms for two digit strings of the same length
RECURSIVE DigitsGreater(_, _)
DigitsGreater(ds, ms) ==
    IF ds = << >> THEN FALSE
    ELSE IF Head(ds) # Head(ms) THEN DigitVal(Head(ds)) > DigitVal(Head(ms))
    ELSE DigitsGreater(Tail(ds), Tail(ms))

\* sig: the digits without their leading zeros; above u32::MAX is PosOverflow
u32_checked(sig) ==
    IF Len(sig) > 10 \/ (Len(sig) = 10 /\ DigitsGreater(sig, U32MaxDigits))
    THEN ErrOf("BadNumber")
    ELSE OkSome(DigitsVal(sig))

u32_digits(digits) ==
    IF digits = << >> \/ \E i \in 1..Len(digits) : ~IsDigit(digits[i])
    THEN ErrOf("BadNumber")
    ELSE u32_checked(StripZeros(digits))

\* u32::from_str_radix(str, 10): an optional leading '+', then one or more
\* decimal digits whose value fits in 32 unsigned bits.
u32_from_str_radix(str) ==
    IF StartsWith(str, << "+" >>) THEN u32_digits(Drop(str, 1)) ELSE u32_digits(str)

parse_enclosed(enclosing) ==
    CASE enclosing.tag = "Err" -> ErrOf("NoOpeningBrace")
      [] enclosing.tag = "None" -> OkNone
      [] OTHER -> u32_from_str_radix(enclosing.raw)

parse_literal(line) == parse_enclosed(parse_literal_enclosing(line))

-----------------------------------------------------------------------------
(* Decoder::decode.  A call returns Ok(None), Ok(Some(Outcome)) or Err, or *)
(* panics on assert!(rem.is_empty()); ret.tag names which:                 *)
(*   None | Command | SendLiteralAck | SendLiteralReject                   *)
(*   | CommandParsingFailed | Line | Literal | Panic                       *)
(* n is the literal size of an Ack or Reject, cmd the parsed command, kind *)
(* the LineKind or LiteralKind of a framing error.  reserved is the        *)
(* argument of src.reserve when the call made one, and -1 otherwise.       *)

NoCmd == [tag |-> << >>, body |-> [verb |-> "-"]]

Ret(tag, n, cmd, kind) == [tag |-> tag, n |-> n, cmd |-> cmd, kind |-> kind]

RetNone == Ret("None", 0, NoCmd, "-")

Done(ret, st, buf, reserved) ==
    [ret |-> ret, state |-> st, src |-> buf, reserved |-> reserved]

advance(buf, cnt) == SubSeq(buf, cnt + 1, Len(buf))

\* A variant that leaves the scan offset behind a returned command.
readline_command_stale(acc, buf, parsed) ==
    IF parsed.rem # << >>
    THEN Done(Ret("Panic", 0, NoCmd, "-"), ReadLine(acc), buf, -1)
    ELSE Done(Ret("Command", 0, parsed.val, "-"), ReadLine(acc), advance(buf, acc), -1)

\* command(..) returned Ok((rem, cmd)): assert!(rem.is_empty()), advance, reset
readline_command(acc, buf, parsed) ==
    IF parsed.rem # << >>
    THEN Done(Ret("Panic", 0, NoCmd, "-"), ReadLine(acc), buf, -1)
    ELSE Done(Ret("Command", 0, parsed.val, "-"), ReadLine(0), advance(buf, acc), -1)

\* command(..) returned Err(_): the bytes are advanced, self.state is left as it is
readline_parse_failed(acc, buf) ==
    Done(Ret("CommandParsingFailed", 0, NoCmd, "-"), ReadLine(acc), advance(buf, acc), -1)

readline_parsed(acc, buf, parsed) ==
    IF parsed.ok THEN readline_command(acc, buf, parsed)
    ELSE readline_parse_failed(acc, buf)

\* A variant that refuses a literal without bytes.
literal_rejected_empty(max, needed) == max < needed \/ needed = 0

\* A variant that also rejects a literal of exactly the maximum size.
literal_rejected_at_max(max, needed) == max <= needed

literal_rejected(max, needed) == max < needed

\* A variant that rejects without dropping the framed bytes.
readline_reject_keep(acc, buf, needed) ==
    Done(Ret("SendLiteralReject", needed, NoCmd, "-"), ReadLine(0), buf, -1)

readline_reject(acc, buf, needed) ==
    Done(Ret("SendLiteralReject", needed, NoCmd, "-"), ReadLine(0), advance(buf, acc), -1)

\* A variant that takes the announcing line off the buffer with the Ack.
readline_ack_consume(acc, buf, needed) ==
    Done(Ret("SendLiteralAck", needed, NoCmd, "-"), ReadLiteral(0, needed),
         advance(buf, acc), needed)

readline_ack(acc, buf, needed) ==
    Done(Ret("SendLiteralAck", needed, NoCmd, "-"), ReadLiteral(acc, needed), buf, needed)

readline_literal_error(buf, error) ==
    Done(Ret("Literal", 0, NoCmd, error), ReadLine(0), << >>, -1)

\* A variant that drops the scanned bytes when it asks for more data.
readline_more_data_drop(st, buf) == Done(RetNone, st, << >>, -1)

readline_more_data(st, buf) == Done(RetNone, st, buf, -1)

\* A variant that reports the bare LF and keeps the buffer.
readline_line_error_keep(buf, error) ==
    Done(Ret("Line", 0, NoCmd, error), ReadLine(0), buf, -1)

readline_line_error(buf, error) ==
    Done(Ret("Line", 0, NoCmd, error), ReadLine(0), << >>, -1)

\* match ImapServerCodec::parse_literal(&src[..*to_consume_acc - 2])
readline_literal(acc, buf, max, lit) ==
    CASE lit.tag = "Err" -> readline_literal_error(buf, lit.val)
      [] lit.tag = "None" -> readline_parsed(acc, buf, command(Take(buf, acc)))
      [] OTHER ->
            IF literal_rejected(max, lit.val)
            THEN readline_reject(acc, buf, lit.val)
            ELSE readline_ack(acc, buf, lit.val)

\* *to_consume_acc += to_consume
readline_line(acc, buf, max) ==
    readline_literal(acc, buf, max, parse_literal(Take(buf, acc - 2)))

\* match ImapServerCodec::find_crlf_inclusive(*to_consume_acc, src)
readline_found(st, buf, max, found) ==
    CASE found.tag = "None" -> readline_more_data(st, buf)
      [] found.tag = "Err" -> readline_line_error(buf, found.val)
      [] OTHER -> readline_line(st.to_consume_acc + found.val, buf, max)

\* the State::ReadLine arm
decode_ReadLine(st, buf, max) ==
    readline_found(st, buf, max, find_crlf_inclusive(st.to_consume_acc, buf))

\* the test of the State::ReadLiteral arm
literal_buffered(acc, needed, buf) == acc + needed <= Len(buf)

\* A variant that resumes the line scan at the last byte of the literal body.
readliteral_next_short(st) ==
    ReadLine(st.to_consume_acc + (IF st.needed > 0 THEN st.needed - 1 ELSE 0))

\* A variant that resumes the line scan at the start of the literal body.
readliteral_next_at_body(st) == ReadLine(st.to_consume_acc)

\* self.state = State::ReadLine { to_consume_acc: to_consume_acc + needed as usize }
readliteral_next(st) == ReadLine(st.to_consume_acc + st.needed)

\* the loop of decode: ReadLiteral either returns None or falls through to
\* ReadLine; iters counts the passes through the loop.
decode(st, buf, max) ==
    IF st.kind = "ReadLine"
    THEN [call |-> decode_ReadLine(st, buf, max), iters |-> 1]
    ELSE IF literal_buffered(st.to_consume_acc, st.needed, buf)
    THEN [call |-> decode_ReadLine(readliteral_next(st), buf, max), iters |-> 2]
    ELSE [call |-> Done(RetNone, st, buf, -1), iters |-> 1]

-----------------------------------------------------------------------------
(* Debug formatting: Secret<T> by its own impl, the types around it by     *)
(* #[derive(Debug)]                                                        *)

\* A variant that prints the wrapped value, as a derived Debug would.
fmt_Secret_derived(inner) == << "S", "e", "c", "r", "e", "t", "(" >> \o inner \o << ")" >>

\* impl<T> Debug for Secret<T>: write!(f, "[[REDACTED]]")
fmt_Secret(inner) == << "[", "[", "R", "E", "D", "A", "C", "T", "E", "D", "]", "]" >>

fmt_bytes(data) == << "\"" >> \o data \o << "\"" >>

fmt_AString(a) ==
    IF a.kind = "Atom" THEN << "A", "t", "o", "m", "(" >> \o fmt_bytes(a.data) \o << ")" >>
    ELSE << "S", "t", "r", "i", "n", "g", "(", "L", "i", "t", "e", "r", "a", "l", "(" >> \o fmt_bytes(a.data) \o << ")", ")" >>

fmt_Mailbox(m) ==
    IF m.kind = "Inbox" THEN << "I", "n", "b", "o", "x" >> ELSE << "O", "t", "h", "e", "r", "(" >> \o fmt_AString(m.inner) \o << ")" >>

fmt_initial_response(ir) ==
    IF ir.some THEN << "S", "o", "m", "e", "(" >> \o fmt_Secret(fmt_bytes(ir.val)) \o << ")" >> ELSE << "N", "o", "n", "e" >>

fmt_AuthMechanism(mechanism) ==
    CASE mechanism = "Plain" -> << "P", "l", "a", "i", "n" >>
      [] mechanism = "Login" -> << "L", "o", "g", "i", "n" >>

DebugVerbs == { "Noop", "Select", "Login", "Authenticate" }

fmt_CommandBody(body) ==
    CASE body.verb = "Noop" -> << "N", "o", "o", "p" >>
      [] body.verb = "Select" -> << "S", "e", "l", "e", "c", "t", " ", "{", " ", "m", "a", "i", "l", "b", "o", "x", ":", " " >> \o fmt_Mailbox(body.mailbox) \o << " ", "}" >>
      [] body.verb = "Login" ->
            << "L", "o", "g", "i", "n", " ", "{", " ", "u", "s", "e", "r", "n", "a", "m", "e", ":", " " >> \o fmt_AString(body.username)
            \o << ",", " ", "p", "a", "s", "s", "w", "o", "r", "d", ":", " " >> \o fmt_Secret(fmt_AString(body.password)) \o << " ", "}" >>
      [] body.verb = "Authenticate" ->
            << "A", "u", "t", "h", "e", "n", "t", "i", "c", "a", "t", "e", " ", "{", " ", "m", "e", "c", "h", "a", "n", "i", "s", "m", ":", " " >> \o fmt_AuthMechanism(body.mechanism)
            \o << ",", " ", "i", "n", "i", "t", "i", "a", "l", "_", "r", "e", "s", "p", "o", "n", "s", "e", ":", " " >> \o fmt_initial_response(body.initial_response) \o << " ", "}" >>

fmt_Command(cmd) ==
    << "C", "o", "m", "m", "a", "n", "d", " ", "{", " ", "t", "a", "g", ":", " " >> \o fmt_bytes(cmd.tag) \o << ",", " ", "b", "o", "d", "y", ":", " " >> \o fmt_CommandBody(cmd.body) \o << " ", "}" >>

-----------------------------------------------------------------------------
(* Encoded: the one-shot fragment stream *)

\* A variant that hands out the last fragment instead of the first.
Encoded_next_last(its) ==
    IF its # << >>
    THEN [some |-> TRUE, item |-> its[Len(its)], items |-> SubSeq(its, 1, Len(its) - 1)]
    ELSE [some |-> FALSE, item |-> Line(<< >>), items |-> its]

\* Iterator::next: if !self.items.is_empty() { Some(self.items.remove(0)) }
Encoded_next(its) ==
    IF its # << >>
    THEN [some |-> TRUE, item |-> Head(its), items |-> Tail(its)]
    ELSE [some |-> FALSE, item |-> Line(<< >>), items |-> its]

\* A variant that dumps the lines and leaves the literals out.
Encoded_dump_lines(its) == dump(SelectSeq(its, LAMBDA f : f.kind = "Line"))

\* Encoded::dump(self): the data of the remaining fragments, in order
Encoded_dump(its) == dump(its)

-----------------------------------------------------------------------------
(* Inputs *)

MaxPipelined == 2
MaxChunk == 2

MaxLiteralSizes == { 0, 1, 2 }

SyncLit(data) == Literal(data, "Sync")

Other(a) == [kind |-> "Other", inner |-> a]

Cmd(body) == [tag |-> << "a" >>, body |-> body]

Noop == Cmd([verb |-> "Noop"])
Select(mbx) == Cmd([verb |-> "Select", mailbox |-> mbx])
Login(u, p) == Cmd([verb |-> "Login", username |-> u, password |-> p])

MailboxNames ==
    { Atom(<< "x" >>), SyncLit(<< >>), SyncLit(<< "x" >>), SyncLit(<< "}" >>),
      SyncLit(<< LF >>) }

Commands ==
    { Noop }
    \cup { Select(Other(a)) : a \in MailboxNames }
    \cup { Login(SyncLit(<< "x" >>), Atom(<< "y" >>)),
           Login(SyncLit(<< "x" >>), SyncLit(<< CR, LF >>)),
           Select(Other(Literal(<< "x" >>, "NonSync"))) }

\* Commands a client pipelines behind the first one.
Pipelined == { Noop, Select(Other(SyncLit(<< "x" >>))) }

\* What a non-conforming peer may send ahead of its commands.
Malformed ==
    { << >>,
      CRLF,
      << "x", "x", "x", "x", "x", "x", "x", "x" >> \o CRLF,
      << "x", LF >>,
      << "x", "}" >> \o CRLF,
      << "{", "x", "}" >> \o CRLF,
      << "{", "+", "1", "}" >> \o CRLF,
      << "{", "1", "}", CR, LF, "{", "5", "}", CR, LF >> }

RECURSIVE SeqsUpTo(_, _)
SeqsUpTo(S, n) ==
    IF n = 0 THEN { << >> }
    ELSE LET shorter == SeqsUpTo(S, n - 1)
         IN  shorter \cup { Append(q, x) : q \in shorter, x \in S }

CommandSeqs ==
    { << >> } \cup { << c >> \o rest : c \in Commands, rest \in SeqsUpTo(Pipelined, MaxPipelined) }

\* A conforming peer sends commands only; a non-conforming one sends a
\* malformed prefix and then the commands a client pipelines.
Inputs ==
    [prefix : { << >> }, cmds : CommandSeqs]
    \cup [prefix : Malformed, cmds : SeqsUpTo(Pipelined, MaxPipelined)]

RECURSIVE WireOf(_)
WireOf(cmds) ==
    IF cmds = << >> THEN << >> ELSE dump(encode(Head(cmds))) \o WireOf(Tail(cmds))

MaxItems == 2

Quoted(data) == [kind |-> "Quoted", data |-> data]

Authenticate(mechanism, ir) ==
    Cmd([verb |-> "Authenticate", mechanism |-> mechanism, initial_response |-> ir])

InitialResponses ==
    { None, Some(<< >>), Some(<< "x" >>), Some(<< "x", "y" >>),
      Some(<< "a", "l", "i", "c", "e" >>),
      Some(<< "NUL", "a", "l", "i", "c", "e", "NUL", "p", "a", "s", "s" >>) }

AuthenticateCommands ==
    { Authenticate(m, ir) : m \in { "Plain", "Login" }, ir \in InitialResponses }

Value(n) == [kind |-> "Value", n |-> n]
Asterisk == [kind |-> "Asterisk", n |-> 0]
Single(a) == [kind |-> "Single", from |-> a, to |-> a]
Range(a, b) == [kind |-> "Range", from |-> a, to |-> b]

SequenceSets == { << Single(Value(1)) >>, << Range(Value(2), Asterisk), Single(Value(13)) >> }

ItemName(name) == [ty |-> "MessageDataItemName", name |-> name]

Macro(m) == [kind |-> "Macro", macro |-> m, item_names |-> << >>]
MessageDataItemNames(names) ==
    [kind |-> "MessageDataItemNames", macro |-> "-", item_names |-> names]

Fetch(set, names, uid) ==
    Cmd([verb |-> "Fetch", sequence_set |-> set, macro_or_item_names |-> names, uid |-> uid])

FetchCommands ==
    { Fetch(set, names, uid) :
        set \in SequenceSets,
        names \in { Macro(m) : m \in { "All", "Fast", "Full" } }
                  \cup { MessageDataItemNames(l) :
                            l \in SeqsUpTo({ ItemName("Flags"), ItemName("Uid") }, MaxItems) },
        uid \in BOOLEAN }

Charset(a) == [ty |-> "Charset", kind |-> a.kind, data |-> a.data]

Charsets == { Charset(Atom(<< "x" >>)), Charset(Quoted(<< "y", "\"" >>)) }

Alert == [kind |-> "Alert", allowed |-> << >>]
BadCharset(allowed) == [kind |-> "BadCharset", allowed |-> allowed]

Codes ==
    { None, Some(Alert) } \cup { Some(BadCharset(l)) : l \in SeqsUpTo(Charsets, MaxItems) }

Status(kind, tag, code, text) ==
    [ty |-> "Status", kind |-> kind, tag |-> tag, code |-> code, text |-> text]

Greeting(kind, code, text) ==
    [ty |-> "Greeting", kind |-> kind, code |-> code, text |-> text]

Continue(code, text) ==
    [ty |-> "Continue", kind |-> "Basic", code |-> code, text |-> text, data |-> << >>]

ContinueBase64(data) ==
    [ty |-> "Continue", kind |-> "Base64", code |-> None, text |-> << >>, data |-> data]

Payloads == { << >>, << "x" >>, << "x", "y" >>, << "a", "l", "i", "c", "e" >> }

NonZero(n) == [ty |-> "NonZeroU32", n |-> n]

Search(seqs) == [ty |-> "Data", kind |-> "Search", seqs |-> seqs]

BodyExt(data) == [ty |-> "MessageDataItem", kind |-> "BodyExt", data |-> data, uid |-> 0]
Uid(n) == [ty |-> "MessageDataItem", kind |-> "Uid", data |-> None, uid |-> n]

Address(name, adl, mbx, host) ==
    [ty |-> "Address", name |-> name, adl |-> adl, mailbox |-> mbx, host |-> host]

A1 == Address(None, None, Some(Quoted(<< "x" >>)), Some(Quoted(<< "y" >>)))
A2 == Address(Some(Quoted(<< "n" >>)), None, Some(Quoted(<< "x" >>)), None)

Envelope(date, subject, from, others, in_reply_to, message_id) ==
    [date |-> date, subject |-> subject, from |-> from, sender |-> others[1],
     reply_to |-> others[2], to |-> others[3], cc |-> others[4], bcc |-> others[5],
     in_reply_to |-> in_reply_to, message_id |-> message_id]

AddressLists == SeqsUpTo({ A1, A2 }, MaxItems)

Envelopes ==
    { Envelope(None, None, l, << << >>, << >>, << >>, << >>, << >> >>, None, None) :
        l \in AddressLists }
    \cup { Envelope(Some(Quoted(<< "d" >>)), Some(Quoted(<< >>)), << >>,
                    << << A2 >>, << >>, l, << >>, << >> >>,
                    Some(Quoted(<< "r" >>)), Some(Quoted(<< "m" >>))) : l \in AddressLists }
    \cup { Envelope(None, Some(Quoted(<< "s" >>)), << A1 >>,
                    << << >>, << A2 >>, << >>, << A1 >>, << A2 >> >>, None, Some(Quoted(<< "m" >>))) }

EnvelopeItem(env) ==
    [ty |-> "MessageDataItem", kind |-> "Envelope", data |-> None, uid |-> 0, envelope |-> env]

BasicFields(params, id, description, cte, size) ==
    [parameter_list |-> params, id |-> id, description |-> description,
     content_transfer_encoding |-> cte, size |-> size]

TextBody(basic, subtype, lines) ==
    [basic |-> basic,
     specific |-> [kind |-> "Text", type |-> Quoted(<< "T", "E", "X", "T" >>), subtype |-> subtype,
                   number_of_lines |-> lines]]

BasicBody(basic, type, subtype) ==
    [basic |-> basic,
     specific |-> [kind |-> "Basic", type |-> type, subtype |-> subtype,
                   number_of_lines |-> 0]]

Disposition(disposition) == [disposition |-> disposition, tail |-> None]

SinglePartExtensionData(md5, tail) == [md5 |-> md5, tail |-> tail]

BodyStructureSingle(body, extension_data) ==
    [kind |-> "Single", body |-> body, extension_data |-> extension_data]

Parameters == { << >>, << [attribute |-> Quoted(<< "a" >>), value |-> Quoted(<< "b" >>)] >> }

Bodies ==
    { TextBody(BasicFields(p, None, None, Quoted(<< "e" >>), 3), Quoted(<< "p" >>), 1) : p \in Parameters }
    \cup { BasicBody(BasicFields(<< >>, Some(Quoted(<< "i" >>)), None, Quoted(<< "e" >>), 0),
                     Quoted(<< "t" >>), Quoted(<< "u" >>)) }

Extensions ==
    { None,
      Some(SinglePartExtensionData(None, None)),
      Some(SinglePartExtensionData(Some(Quoted(<< "m" >>)), Some(Disposition(None)))) }
    \cup { Some(SinglePartExtensionData(None,
                 Some(Disposition(Some([s |-> Quoted(<< "i" >>), param |-> p]))))) :
             p \in Parameters }

BodyStructures == { BodyStructureSingle(b, x) : b \in Bodies, x \in Extensions }

BodyItem(kind, bs) ==
    [ty |-> "MessageDataItem", kind |-> kind, data |-> None, uid |-> 0, body |-> bs]

DataFetch(seq, its) == [ty |-> "Data", kind |-> "Fetch", seq |-> seq, items |-> its]

Responses ==
    { Status("Ok", None, c, << "t" >>) : c \in Codes }
    \cup { Status("No", Some(<< "a" >>), Some(BadCharset(<< >>)), << "t" >>),
           Status("Bad", Some(<< "a" >>), None, << "t" >>),
           Status("Bye", None, Some(Alert), << "t" >>) }
    \cup { Continue(None, << "t" >>),
           Continue(Some(BadCharset(<< Charset(Atom(<< "x" >>)) >>)), << "t" >>) }
    \cup { ContinueBase64(d) : d \in Payloads }
    \cup { Search(l) : l \in SeqsUpTo({ NonZero(1), NonZero(23) }, MaxItems) }
    \cup { DataFetch(12345, << BodyExt(Some(SyncLit(<< "x", "y" >>))) >>),
           DataFetch(12345, << BodyExt(Some(Literal(<< "x", "y" >>, "NonSync"))) >>),
           DataFetch(1, << BodyExt(None) >>),
           DataFetch(1, << Uid(7), EnvelopeItem(CHOOSE v \in Envelopes : v.date.some /\ Len(v.to) = 2),
                           BodyExt(Some(SyncLit(<< "x" >>))) >>),
           DataFetch(1, << BodyExt(Some(Quoted(<< "x", "\\" >>))) >>),
           DataFetch(1, << Uid(7), BodyExt(Some(SyncLit(<< >>))),
                           BodyExt(Some(Literal(<< CR, LF >>, "NonSync"))) >>) }

FetchResponses ==
    { DataFetch(1, << EnvelopeItem(v) >>) : v \in Envelopes }
    \cup { DataFetch(1, << BodyItem(k, bs) >>) : k \in { "Body", "BodyStructure" }, bs \in BodyStructures }

Greetings ==
    { Greeting("Ok", None, << "t" >>),
      Greeting("PreAuth", Some(Alert), << "t" >>),
      Greeting("Bye", Some(BadCharset(<< >>)), << "t" >>) }

Messages ==
    Commands
    \cup { Select(Other(Literal(<< "x" >>, "NonSync"))),
           Login(Literal(<< "x", "y" >>, "NonSync"), SyncLit(<< >>)),
           Login(Atom(<< "x" >>), Atom(<< "y" >>)),
           Login(Atom(<< "x" >>), Literal(<< "y" >>, "NonSync")),
           Select([kind |-> "Inbox"]) }
    \cup AuthenticateCommands
    \cup FetchCommands
    \cup Responses
    \cup FetchResponses
    \cup Greetings

-----------------------------------------------------------------------------
(* The decoder under a peer that writes its stream in chunks *)

NoOut == [ret |-> RetNone, at |-> 0]

Idle ==
    [called |-> FALSE, ret |-> RetNone, pre_src |-> << >>,
     pre_state |-> ReadLine(0), prev |-> NoOut, reserved |-> -1, iters |-> 0]

LastOut == IF outs = << >> THEN NoOut ELSE outs[Len(outs)]

Panicked == LastOut.ret.tag = "Panic"

Drained == (last.called /\ last.ret.tag = "None") \/ (src = << >> /\ outs = << >>)

EncIdle ==
    /\ msg = NoCmd
    /\ items = << >>
    /\ taken = << >>
    /\ lastNext = "-"
    /\ dumped = [called |-> FALSE, out |-> << >>]
    /\ logged = [called |-> FALSE, out |-> << >>]

NotEncoded ==
    [called |-> FALSE, item |-> NoCmd, pre_dst |-> << >>, pre_state |-> ReadLine(0),
     pre_max |-> 0, ret |-> "-", count |-> 0]

SrvIdle ==
    /\ dst = << >>
    /\ encoded = NotEncoded

Init ==
    /\ input \in Inputs
    /\ wire = input.prefix \o WireOf(input.cmds)
    /\ src = << >>
    /\ state = ImapServerCodec_new
    /\ max_literal_size \in MaxLiteralSizes
    /\ last = Idle
    /\ outs = << >>
    /\ disciplined = TRUE
    /\ fed = "nothing"
    /\ EncIdle
    /\ SrvIdle

\* the caller reads k more bytes from the peer into src
Extend(k) ==
    /\ ~Panicked
    /\ k >= 1 /\ k <= Len(wire)
    /\ src' = src \o Take(wire, k)
    /\ wire' = Drop(wire, k)
    /\ last' = Idle
    /\ disciplined' = (disciplined /\ Drained)
    /\ encoded' = [encoded EXCEPT !.called = FALSE]
    /\ UNCHANGED << state, max_literal_size, outs, input, fed, dst >>
    /\ UNCHANGED encVars

ExtendChunk == \E k \in 1..MaxChunk : Extend(k)

ExtendAll == Len(wire) > MaxChunk /\ Extend(Len(wire))

Decode ==
    /\ ~Panicked
    /\ \E d \in { decode(state, src, max_literal_size) } :
           /\ src' = d.call.src
           /\ state' = d.call.state
           /\ last' = [called |-> TRUE, ret |-> d.call.ret, pre_src |-> src,
                       pre_state |-> state, prev |-> LastOut,
                       reserved |-> d.call.reserved, iters |-> d.iters]
           /\ outs' = IF d.call.ret.tag = "None" THEN outs
                      ELSE Append(outs, [ret |-> d.call.ret,
                                         at |-> d.call.state.to_consume_acc])
    /\ fed' = IF fed # "nothing" THEN fed ELSE IF wire = << >> THEN "whole" ELSE "part"
    /\ encoded' = [encoded EXCEPT !.called = FALSE]
    /\ UNCHANGED << wire, max_literal_size, input, disciplined, dst >>
    /\ UNCHANGED encVars

Next == ExtendChunk \/ ExtendAll \/ Decode

Spec == Init /\ [][Next]_vars

-----------------------------------------------------------------------------
(* The server codec as an encoder: between the decode calls the server     *)
(* encodes responses into dst.                                              *)

MaxEncoded == 2

\* What the server sends while it reads commands.
ServerResponses ==
    { Continue(None, << "t" >>),
      Status("Ok", Some(<< "a" >>), None, << "t" >>),
      DataFetch(1, << BodyExt(Some(SyncLit(<< "x" >>))) >>) }

\* What the peer of that server sends.
ServerInputs ==
    [prefix : { << >> },
     cmds : { << Noop >>,
              << Select(Other(SyncLit(<< "x" >>))), Noop >>,
              << Login(SyncLit(<< "x" >>), SyncLit(<< CR, LF >>)) >> }]
    \cup [prefix : { << "x", LF >> }, cmds : { << Noop >> }]

\* dst.writer(): what is written goes behind the bytes dst holds
BufMut_writer_write(writer, bytes) == writer \o bytes

\* item.encode(&mut writer): the wire bytes of the item, written in full
Encode_encode(item, writer) == BufMut_writer_write(writer, dump(encode(item)))

\* A variant that starts the decoder over when a response is encoded.
Encoder_encode_reset(self, item, buf) ==
    [self |-> [self EXCEPT !.state = ReadLine(0)],
     dst |-> Encode_encode(item, buf), ret |-> "Ok"]

\* fn encode(&mut self, item: Response, dst: &mut BytesMut)
Encoder_encode(self, item, buf) ==
    [self |-> self, dst |-> Encode_encode(item, buf), ret |-> "Ok"]

InitSrv ==
    /\ input \in ServerInputs
    /\ wire = input.prefix \o WireOf(input.cmds)
    /\ src = << >>
    /\ state = ImapServerCodec_new
    /\ max_literal_size \in MaxLiteralSizes
    /\ last = Idle
    /\ outs = << >>
    /\ disciplined = TRUE
    /\ fed = "nothing"
    /\ EncIdle
    /\ SrvIdle

EncodeResponse ==
    /\ ~Panicked
    /\ encoded.count < MaxEncoded
    /\ \E item \in ServerResponses :
         \E e \in { Encoder_encode([state |-> state, max_literal_size |-> max_literal_size],
                                    item, dst) } :
            /\ dst' = e.dst
            /\ state' = e.self.state
            /\ max_literal_size' = e.self.max_literal_size
            /\ encoded' = [called |-> TRUE, item |-> item, pre_dst |-> dst,
                           pre_state |-> state, pre_max |-> max_literal_size,
                           ret |-> e.ret, count |-> encoded.count + 1]
    /\ UNCHANGED << wire, src, last, outs, input, disciplined, fed >>
    /\ UNCHANGED encVars

NextSrv == ExtendChunk \/ ExtendAll \/ Decode \/ EncodeResponse

SpecSrv == InitSrv /\ [][NextSrv]_vars

-----------------------------------------------------------------------------
(* The encoder: a message is encoded, then its fragments are taken one by  *)
(* one with next() and, at any point, the rest is dumped.                  *)

DecIdle ==
    /\ wire = << >>
    /\ src = << >>
    /\ state = ImapServerCodec_new
    /\ max_literal_size = 0
    /\ last = Idle
    /\ outs = << >>
    /\ input = [prefix |-> << >>, cmds |-> << >>]
    /\ disciplined = TRUE
    /\ fed = "nothing"
    /\ SrvIdle

InitEnc ==
    /\ msg \in Messages
    /\ items = encode(msg)
    /\ taken = << >>
    /\ lastNext = "-"
    /\ dumped = [called |-> FALSE, out |-> << >>]
    /\ logged = [called |-> FALSE, out |-> << >>]
    /\ DecIdle

IterNext ==
    /\ ~dumped.called
    /\ \E n \in { Encoded_next(items) } :
           /\ items' = n.items
           /\ taken' = IF n.some THEN Append(taken, n.item) ELSE taken
           /\ lastNext' = IF n.some THEN "Some" ELSE "None"
    /\ UNCHANGED << msg, dumped, logged >>
    /\ UNCHANGED decVars
    /\ UNCHANGED srvVars

Dump ==
    /\ ~dumped.called
    /\ dumped' = [called |-> TRUE, out |-> Encoded_dump(items)]
    /\ items' = << >>
    /\ UNCHANGED << msg, taken, lastNext, logged >>
    /\ UNCHANGED decVars
    /\ UNCHANGED srvVars

\* format!("{:?}", cmd), as an application logs the command it encodes
DebugFmt ==
    /\ ~logged.called
    /\ "body" \in DOMAIN msg
    /\ msg.body.verb \in DebugVerbs
    /\ logged' = [called |-> TRUE, out |-> fmt_Command(msg)]
    /\ UNCHANGED << msg, items, taken, lastNext, dumped >>
    /\ UNCHANGED decVars
    /\ UNCHANGED srvVars

NextEnc == IterNext \/ Dump \/ DebugFmt

SpecEnc == InitEnc /\ [][NextEnc]_vars

-----------------------------------------------------------------------------
(* What a decode call faced: the offset its line scan starts at, and the   *)
(* first line at or after that offset.                                     *)

\* ReadLine scans from to_consume_acc; ReadLiteral from behind the body.
ScanOffset(st) ==
    IF st.kind = "ReadLine" THEN st.to_consume_acc ELSE st.to_consume_acc + st.needed

\* the 0-based indices at or after off that hold LF
LfFrom(buf, off) == { p \in 0..(Len(buf) - 1) : p >= off /\ buf[p + 1] = LF }

HasLf(buf, off) == LfFrom(buf, off) # {}

FirstLf(buf, off) == MinOf(LfFrom(buf, off))

\* the first LF at or after off ends a line with a CR of that line before it
HasLine(buf, off) ==
    /\ HasLf(buf, off)
    /\ FirstLf(buf, off) > off
    /\ buf[FirstLf(buf, off)] = CR

\* the number of bytes from the start of buf through that line's CRLF
LineEnd(buf, off) == FirstLf(buf, off) + 1

\* the line itself, without its CRLF
LineAt(buf, off) == SubSeq(buf, off + 1, LineEnd(buf, off) - 2)

EndsInBrace(line) == line # << >> /\ line[Len(line)] = "}"

\* line ends in "{" digits "}": at least one digit, nothing but digits
\* (at most nine, so that the size stays a machine integer of the model)
Announces(line, k) ==
    /\ k >= 1 /\ k <= Len(line) - 2 /\ Len(line) - 1 - k <= 9
    /\ line[k] = "{"
    /\ line[Len(line)] = "}"
    /\ \A i \in (k + 1)..(Len(line) - 1) : IsDigit(line[i])

WellFormedAnnouncement(line) == \E k \in 1..Len(line) : Announces(line, k)

AnnouncedSize(line) ==
    LET k == CHOOSE j \in 1..Len(line) : Announces(line, j)
    IN  DigitsVal(SubSeq(line, k + 1, Len(line) - 1))

\* buf starts with one complete line that the parser accepts as a command
HoldsCommandLine(buf) ==
    /\ HasLine(buf, 0)
    /\ command(Take(buf, LineEnd(buf, 0))).ok
    /\ command(Take(buf, LineEnd(buf, 0))).rem = << >>

IsPrefix(a, b) == Len(a) <= Len(b) /\ SubSeq(b, 1, Len(a)) = a

-----------------------------------------------------------------------------
(* C1: framer coverage *)

OutRets == [i \in 1..Len(outs) |-> outs[i].ret]

RECURSIVE AcksOf(_)
AcksOf(frags) ==
    IF frags = << >> THEN << >>
    ELSE IF Head(frags).kind = "Literal"
    THEN << Ret("SendLiteralAck", Len(Head(frags).data), NoCmd, "-") >> \o AcksOf(Tail(frags))
    ELSE AcksOf(Tail(frags))

RECURSIVE Expected(_)
Expected(cmds) ==
    IF cmds = << >> THEN << >>
    ELSE AcksOf(encode(Head(cmds))) \o << Ret("Command", 0, Head(cmds), "-") >>
         \o Expected(Tail(cmds))

LiteralsFit(cmds) ==
    \A i \in 1..Len(cmds) : \A j \in 1..Len(encode(cmds[i])) :
        encode(cmds[i])[j].kind = "Literal" =>
            /\ encode(cmds[i])[j].mode = "Sync"
            /\ Len(encode(cmds[i])[j].data) <= max_literal_size

\* C1: when the peer sends only well-formed commands whose literals are
\* synchronizing and fit max_literal_size, in any chunking, and decode is
\* drained to None after every chunk, the non-None results are, command by
\* command in input order, one SendLiteralAck per literal and then the
\* Command: never anything else, and all of them once the stream is in.
C1_FramerCoverage ==
    (input.prefix = << >> /\ LiteralsFit(input.cmds) /\ disciplined) =>
        /\ IsPrefix(OutRets, Expected(input.cmds))
        /\ (wire = << >> /\ Drained) => OutRets = Expected(input.cmds)

-----------------------------------------------------------------------------
(* C2: nothing between an Ack and the end of the literal's line *)

\* C2: after SendLiteralAck(N) for an announcement line ending at offset c,
\* a decode call returns something other than None only when the buffer it
\* is given holds at least c + N bytes and an LF at an index >= c + N.
C2_SilentUntilLiteralAndLine ==
    (last.called /\ last.prev.ret.tag = "SendLiteralAck" /\ last.ret.tag # "None") =>
        /\ Len(last.pre_src) >= last.prev.at + last.prev.ret.n
        /\ HasLf(last.pre_src, last.prev.at + last.prev.ret.n)

\* a command completes behind an acknowledged literal whose body held a line end
C2_Witness ==
    /\ last.called
    /\ last.prev.ret.tag = "SendLiteralAck"
    /\ last.ret.tag = "Command"
    /\ HasLf(SubSeq(last.pre_src, 1, last.prev.at + last.prev.ret.n), last.prev.at)

-----------------------------------------------------------------------------
(* C3: the literal size policy *)

\* C3: when the line a decode call completes ends in a well-formed
\* announcement {N}: if N <= max_literal_size the call returns
\* SendLiteralAck(N), reserves N bytes, leaves the buffer alone and enters
\* ReadLiteral{end of that line, N}; if N > max_literal_size it returns
\* SendLiteralReject(N), reserves nothing and is in ReadLine.  An Ack is
\* never for a size above the maximum, a Reject never for one within it.
C3_LiteralPolicy ==
    /\ (last.called /\ HasLine(last.pre_src, ScanOffset(last.pre_state))
        /\ WellFormedAnnouncement(LineAt(last.pre_src, ScanOffset(last.pre_state)))) =>
          \E n \in { AnnouncedSize(LineAt(last.pre_src, ScanOffset(last.pre_state))) } :
            IF n <= max_literal_size
            THEN /\ last.ret = Ret("SendLiteralAck", n, NoCmd, "-")
                 /\ state = ReadLiteral(LineEnd(last.pre_src, ScanOffset(last.pre_state)), n)
                 /\ last.reserved = n
                 /\ src = last.pre_src
            ELSE /\ last.ret = Ret("SendLiteralReject", n, NoCmd, "-")
                 /\ last.reserved = -1
                 /\ state.kind = "ReadLine"
    /\ (last.called /\ last.ret.tag = "SendLiteralAck") =>
          last.ret.n <= max_literal_size /\ state.kind = "ReadLiteral"
    /\ (last.called /\ last.ret.tag = "SendLiteralReject") =>
          last.ret.n > max_literal_size /\ state.kind = "ReadLine" /\ last.reserved = -1

\* a literal of exactly max_literal_size bytes is acknowledged
C3_Witness ==
    /\ last.called
    /\ last.ret.tag = "SendLiteralAck"
    /\ last.ret.n = max_literal_size
    /\ max_literal_size >= 1

-----------------------------------------------------------------------------
(* C4: the reset behind a rejected literal *)

\* C4: when decode returns SendLiteralReject, the state is ReadLine{0}, and
\* the buffer is what it was without its front through the CRLF of the
\* announcement line (the lines and literal bodies before the scan offset,
\* then that line); every byte behind that CRLF is kept, in order.
C4_RejectResets ==
    (last.called /\ last.ret.tag = "SendLiteralReject") =>
        /\ state = ReadLine(0)
        /\ HasLine(last.pre_src, ScanOffset(last.pre_state))
        /\ src = SubSeq(last.pre_src,
                        LineEnd(last.pre_src, ScanOffset(last.pre_state)) + 1,
                        Len(last.pre_src))

\* a second literal of a command is rejected while later bytes are buffered
C4_Witness ==
    /\ last.called
    /\ last.ret.tag = "SendLiteralReject"
    /\ last.prev.ret.tag = "SendLiteralAck"
    /\ ScanOffset(last.pre_state) > 0
    /\ src # << >>

-----------------------------------------------------------------------------
(* C5: recovery from a parse error *)

\* C5: Err(CommandParsingFailed) removes exactly the framed bytes of the
\* failed command, and from then on a buffer that starts with a complete
\* well-formed command makes decode return that Command.
C5_ParseErrorRecoverable ==
    /\ (last.called /\ last.ret.tag = "CommandParsingFailed") =>
          src = SubSeq(last.pre_src,
                       LineEnd(last.pre_src, ScanOffset(last.pre_state)) + 1,
                       Len(last.pre_src))
    /\ (last.called /\ last.prev.ret.tag = "CommandParsingFailed"
        /\ HoldsCommandLine(last.pre_src)) =>
          last.ret.tag = "Command"

-----------------------------------------------------------------------------
(* C6: CRLF discipline *)

\* C6: when the first LF at or after the scan offset has no CR right
\* before it, decode returns Err(Line(NotCrLf)), the buffer is empty
\* afterwards and the state is ReadLine{0}.
C6_BareLfClears ==
    (last.called /\ HasLf(last.pre_src, ScanOffset(last.pre_state))
     /\ \E p \in { FirstLf(last.pre_src, ScanOffset(last.pre_state)) } :
            p = 0 \/ last.pre_src[p] # CR) =>
        /\ last.ret = Ret("Line", 0, NoCmd, "NotCrLf")
        /\ src = << >>
        /\ state = ReadLine(0)

\* a bare LF is met while bytes behind it are already buffered
C6_Witness ==
    /\ last.called
    /\ last.ret.tag = "Line"
    /\ Len(last.pre_src) > FirstLf(last.pre_src, ScanOffset(last.pre_state)) + 1
    /\ src = << >>

-----------------------------------------------------------------------------
(* C7: malformed literal announcements *)

\* C7: when the line a decode call completes ends in `}` and is not a
\* well-formed announcement (no `{` in the line, or no valid number between
\* the braces), decode returns Err(Literal(kind)), neither Ack nor Reject,
\* the buffer is empty afterwards and the state is ReadLine{0}.
C7_MalformedAnnouncementClears ==
    (last.called /\ HasLine(last.pre_src, ScanOffset(last.pre_state))
     /\ EndsInBrace(LineAt(last.pre_src, ScanOffset(last.pre_state)))
     /\ ~WellFormedAnnouncement(LineAt(last.pre_src, ScanOffset(last.pre_state)))) =>
        /\ last.ret.tag = "Literal"
        /\ src = << >>
        /\ state = ReadLine(0)

-----------------------------------------------------------------------------
(* C8: no consumption on None *)

\* C8: when decode returns Ok(None) the buffer holds the bytes it held
\* before the call, and a second call on it returns Ok(None) again and
\* leaves the buffer and the state as they are.
C8_NoneConsumesNothing ==
    (last.called /\ last.ret.tag = "None") =>
        /\ src = last.pre_src
        /\ \E d \in { decode(state, src, max_literal_size) } :
              /\ d.call.ret.tag = "None"
              /\ d.call.src = src
              /\ d.call.state = state

\* None with the literal body complete and the line behind it still open
C8_Witness ==
    /\ last.called
    /\ last.ret.tag = "None"
    /\ last.pre_state.kind = "ReadLiteral"
    /\ state.kind = "ReadLine"
    /\ Len(src) > state.to_consume_acc

-----------------------------------------------------------------------------
(* C9: what a Command consumes *)

\* C9: when decode returns Command, the bytes removed from the front of the
\* buffer are exactly one command, the one returned, ending with the line
\* just completed; the state is ReadLine{0}; the bytes behind stay; and if
\* they start with another complete command, the next decode call returns
\* it with nothing appended.
C9_CommandConsumesOneFrame ==
    (last.called /\ last.ret.tag = "Command") =>
        /\ state = ReadLine(0)
        /\ \E e \in { LineEnd(last.pre_src, ScanOffset(last.pre_state)) } :
              /\ src = SubSeq(last.pre_src, e + 1, Len(last.pre_src))
              /\ command(Take(last.pre_src, e)) = Parsed(last.ret.cmd, << >>)
        /\ HoldsCommandLine(src) =>
              \E d \in { decode(state, src, max_literal_size) } :
                  /\ d.call.ret.tag = "Command"
                  /\ d.call.ret.cmd = command(Take(src, LineEnd(src, 0))).val
                  /\ d.call.src = SubSeq(src, LineEnd(src, 0) + 1, Len(src))

\* a command with a literal is returned while a second command waits
C9_Witness ==
    /\ last.called
    /\ last.ret.tag = "Command"
    /\ last.prev.ret.tag = "SendLiteralAck"
    /\ HoldsCommandLine(src)

-----------------------------------------------------------------------------
(* C10: fragment concatenation *)

RECURSIVE DataOf(_)
DataOf(frags) == IF frags = << >> THEN << >> ELSE Head(frags).data \o DataOf(Tail(frags))

\* C10: once next() has yielded every fragment of encode(m), the data of
\* the fragments, concatenated in the order they came, are dump(encode(m));
\* a dump taken before any next() is the same bytes.
C10_FragmentsConcatToDump ==
    /\ (~dumped.called /\ items = << >>) => DataOf(taken) = Encoded_dump(encode(msg))
    /\ (dumped.called /\ taken = << >>) => dumped.out = DataOf(encode(msg))

\* every fragment of a message with two literals has been taken
C10_Witness ==
    /\ ~dumped.called
    /\ items = << >>
    /\ lastNext = "None"
    /\ Len(taken) = 5

-----------------------------------------------------------------------------
(* The literals of a message, in the order they are serialized *)

LiteralsOfString(a) == IF a.kind = "Literal" THEN << a >> ELSE << >>

LiteralsOfNString(n) == IF n.some THEN LiteralsOfString(n.val) ELSE << >>

RECURSIVE LiteralsOfItems(_)
LiteralsOfItems(its) ==
    IF its = << >> THEN << >>
    ELSE LiteralsOfNString(Head(its).data) \o LiteralsOfItems(Tail(its))

LiteralsOfCommand(body) ==
    CASE body.verb = "Select" ->
            IF body.mailbox.kind = "Inbox" THEN << >> ELSE LiteralsOfString(body.mailbox.inner)
      [] body.verb = "Login" ->
            LiteralsOfString(body.username) \o LiteralsOfString(body.password)
      [] OTHER -> << >>

LiteralsOf(m) ==
    IF "body" \in DOMAIN m THEN LiteralsOfCommand(m.body)
    ELSE IF m.ty = "Data" /\ m.kind = "Fetch" THEN LiteralsOfItems(m.items)
    ELSE << >>

EndsWith(s, suffix) ==
    Len(suffix) <= Len(s) /\ SubSeq(s, Len(s) - Len(suffix) + 1, Len(s)) = suffix

Announcement(n, mode) ==
    << "{" >> \o to_string(n) \o (IF mode = "NonSync" THEN << "+", "}" >> ELSE << "}" >>) \o CRLF

-----------------------------------------------------------------------------
(* C11: the shape of the fragment stream *)

\* C11: a message with k literals encodes to exactly 2k+1 fragments, Line
\* at the odd places and Literal at the even ones (so one Line when k = 0),
\* and the i-th Literal fragment carries the bytes of the i-th literal.
C11_FragmentsAlternate ==
    \E f \in { encode(msg) } : \E lits \in { LiteralsOf(msg) } :
        /\ Len(f) = 2 * Len(lits) + 1
        /\ \A i \in 1..Len(f) : f[i].kind = (IF i % 2 = 1 THEN "Line" ELSE "Literal")
        /\ \A j \in 1..Len(lits) : f[2 * j].data = lits[j].data

\* the five fragments of a response with two literals have been delivered
C11_Witness ==
    /\ "ty" \in DOMAIN msg
    /\ Len(LiteralsOf(msg)) = 2
    /\ Len(taken) = 5
    /\ items = << >>

-----------------------------------------------------------------------------
(* C12: every literal is announced by the line before it *)

\* C12: every Literal fragment comes right after a Line fragment whose data
\* end with `{N}` CRLF (Sync) or `{N+}` CRLF (NonSync), N the length of the
\* Literal fragment's data, and the fragment has the mode of its literal.
C12_LiteralAnnounced ==
    \E f \in { encode(msg) } : \E lits \in { LiteralsOf(msg) } :
        /\ \A i \in 1..Len(f) :
              f[i].kind = "Literal" =>
                  /\ i > 1
                  /\ f[i - 1].kind = "Line"
                  /\ f[i].mode \in { "Sync", "NonSync" }
                  /\ EndsWith(f[i - 1].data, Announcement(Len(f[i].data), f[i].mode))
        /\ \A j \in 1..Len(lits) :
              2 * j <= Len(f) => f[2 * j].mode = lits[j].mode

\* a non-synchronizing literal of two bytes has been delivered
C12_Witness ==
    \E i \in 1..Len(taken) :
        /\ taken[i].kind = "Literal"
        /\ taken[i].mode = "NonSync"
        /\ Len(taken[i].data) = 2

-----------------------------------------------------------------------------
(* C15: the fragment stream is one-shot and ordered *)

\* C15: the fragments taken so far are the first ones of the encoding, in
\* order, and what is left are the others; next() answers None exactly
\* when nothing is left, and then again; a dump after j fragments were
\* taken is the data of the fragments from j+1 on, so the data taken
\* followed by the dump are the full encoding.
C15_OneShotOrdered ==
    /\ ~dumped.called => taken \o items = encode(msg)
    /\ lastNext = "None" => items = << >>
    /\ items = << >> =>
          /\ ~Encoded_next(items).some
          /\ Encoded_next(items).items = << >>
    /\ dumped.called =>
          /\ items = << >>
          /\ dumped.out = DataOf(SubSeq(encode(msg), Len(taken) + 1, Len(encode(msg))))
          /\ DataOf(taken) \o dumped.out = DataOf(encode(msg))

\* the rest is dumped after two of five fragments were taken
C15_Witness ==
    /\ dumped.called
    /\ Len(taken) = 2
    /\ Len(encode(msg)) = 5

-----------------------------------------------------------------------------
(* C13: from the encoder to the decoder *)

\* C13: when the whole of dump(encode(c)) is in the buffer of a fresh
\* decoder before its first call, c a command whose literals are Sync and
\* fit max_literal_size, the results of decode up to the first None are one
\* SendLiteralAck per literal and then the Command c; the call returning
\* the Command was handed exactly dump(encode(c)), and at the None the
\* buffer is empty and the state ReadLine{0}.
C13_EncodeDecodeFraming ==
    (fed = "whole" /\ input.prefix = << >> /\ Len(input.cmds) = 1
     /\ LiteralsFit(input.cmds)) =>
        /\ IsPrefix(OutRets, Expected(input.cmds))
        /\ (last.called /\ last.ret.tag = "Command") =>
              /\ last.pre_src = dump(encode(input.cmds[1]))
              /\ src = << >>
        /\ (last.called /\ last.ret.tag = "None") =>
              /\ OutRets = Expected(input.cmds)
              /\ src = << >>
              /\ state = ReadLine(0)

-----------------------------------------------------------------------------
(* C14: bounded memory *)

\* the lengths of the lines of a stream, each with its CRLF
LineLengths(buf) ==
    { p - MaxOf({ -1 } \cup { q \in LfFrom(buf, 0) : q < p }) : p \in LfFrom(buf, 0) }

\* the longest line any peer of the model sends
LineBound == MaxOf(UNION { LineLengths(i.prefix \o WireOf(i.cmds)) : i \in Inputs })

\* C14: the bytes the decoder holds for the frame it has not yet emitted,
\* the consumed offset plus the needed bytes of a pending literal, never
\* exceed max_literal_size plus the bound of one line.
C14_BoundedFrame ==
    state.to_consume_acc + state.needed <= max_literal_size + LineBound

-----------------------------------------------------------------------------
(* Secrets in debug output                                                 *)

Contains(s, sub) ==
    \E i \in 1..(Len(s) - Len(sub) + 1) : SubSeq(s, i, i + Len(sub) - 1) = sub

\* The passwords and initial responses a command may carry instead of its own.
Passwords ==
    { Atom(<< "y" >>), Atom(<< "x", "y" >>), SyncLit(<< >>), SyncLit(<< CR, LF >>),
      Literal(<< "y" >>, "NonSync") }

SecretResponses == { ir.val : ir \in { r \in InitialResponses : r.some } }

WithPassword(cmd, p) == [cmd EXCEPT !.body.password = p]
WithInitialResponse(cmd, v) == [cmd EXCEPT !.body.initial_response = Some(v)]

HasSecret(cmd) ==
    /\ "body" \in DOMAIN cmd
    /\ \/ cmd.body.verb = "Login"
       \/ cmd.body.verb = "Authenticate" /\ cmd.body.initial_response.some

SecretOf(cmd) ==
    IF cmd.body.verb = "Login" THEN cmd.body.password.data
    ELSE cmd.body.initial_response.val

\* C16: the debug text of a Secret is one constant text whatever it wraps,
\* so the debug text of a command equals that of every command differing
\* from it only in the password or the SASL initial response, and it does
\* not contain the secret's bytes.
C16_SecretsRedacted ==
    (logged.called /\ HasSecret(msg)) =>
        /\ msg.body.verb = "Login" =>
              \A p \in Passwords : fmt_Command(WithPassword(msg, p)) = logged.out
        /\ msg.body.verb = "Authenticate" =>
              \A v \in SecretResponses :
                  fmt_Command(WithInitialResponse(msg, v)) = logged.out
        /\ Len(SecretOf(msg)) >= 2 => ~Contains(logged.out, SecretOf(msg))

C16_Witness ==
    /\ logged.called
    /\ HasSecret(msg)
    /\ msg.body.verb = "Login"
    /\ Len(SecretOf(msg)) >= 2
    /\ Contains(logged.out, fmt_Secret(<< >>))

-----------------------------------------------------------------------------
(* Boundary cases of the encoder: AUTHENTICATE, SEARCH, FETCH item names,  *)
(* BADCHARSET                                                              *)

\* The text an element of a list has when it is encoded on its own.
ElementText(e) == DataOf(into_items(encode_item(e, EncodeContext_new)))

\* The texts of the elements in their order, one separator between neighbours.
RECURSIVE Joined(_, _)
Joined(elements, sep) ==
    IF elements = << >> THEN << >>
    ELSE IF Len(elements) = 1 THEN ElementText(elements[1])
    ELSE ElementText(Head(elements)) \o sep \o Joined(Tail(elements), sep)

ExceptTail(s, n) == SubSeq(s, 1, Len(s) - n)

\* RFC 4648 base64 of the initial responses of the model
StandardBase64(v) ==
    CASE v = << "x" >> -> << "e", "A", "=", "=" >>
      [] v = << "x", "y" >> -> << "e", "H", "k", "=" >>
      [] v = << "a", "l", "i", "c", "e" >> -> << "Y", "W", "x", "p", "Y", "2", "U", "=" >>
      [] v = << "NUL" >> \o << "a", "l", "i", "c", "e" >> \o << "NUL" >> \o << "p", "a", "s", "s" >> -> << "A", "G", "F", "s", "a", "W", "N", "l", "A", "H", "B", "h", "c", "3", "M", "=" >>

MechanismName(m) == IF m = "Plain" THEN << "P", "L", "A", "I", "N" >> ELSE << "L", "O", "G", "I", "N" >>

IsAuthenticate(m) == "body" \in DOMAIN m /\ m.body.verb = "Authenticate"

ExpectedAuthenticate(cmd) ==
    cmd.tag \o << " ", "A", "U", "T", "H", "E", "N", "T", "I", "C", "A", "T", "E", " " >> \o MechanismName(cmd.body.mechanism)
    \o (IF ~cmd.body.initial_response.some THEN << >>
        ELSE IF cmd.body.initial_response.val = << >> THEN << " ", "=" >>
        ELSE << " " >> \o StandardBase64(cmd.body.initial_response.val))
    \o CRLF

\* C17: an AUTHENTICATE command encodes as one Line fragment holding
\* `tag AUTHENTICATE <mechanism>`, then, when an initial response is
\* present, one space and its standard base64, or one space and `=` when
\* the response has no bytes, then CRLF.
C17_AuthenticateEncoding ==
    IsAuthenticate(msg) =>
        /\ encode(msg) = << Line(ExpectedAuthenticate(msg)) >>
        /\ ~dumped.called => taken \o items = << Line(ExpectedAuthenticate(msg)) >>
        /\ (dumped.called /\ taken = << >>) => dumped.out = ExpectedAuthenticate(msg)

\* the line of an AUTHENTICATE with a zero-length initial response was delivered
C17_Witness ==
    /\ IsAuthenticate(msg)
    /\ msg.body.initial_response = Some(<< >>)
    /\ Len(taken) = 1
    /\ EndsWith(taken[1].data, << " ", "=" >> \o CRLF)

IsSearch(m) == "ty" \in DOMAIN m /\ m.ty = "Data" /\ m.kind = "Search"

ExpectedSearch(m) ==
    IF m.seqs = << >> THEN << "*", " ", "S", "E", "A", "R", "C", "H" >> \o CRLF
    ELSE << "*", " ", "S", "E", "A", "R", "C", "H", " " >> \o Joined(m.seqs, << " " >>) \o CRLF

\* C18: a SEARCH response with no numbers encodes as `* SEARCH` CRLF, with
\* no space before the CRLF; with numbers it encodes as `* SEARCH `, the
\* numbers in the order given with one space between neighbours, then CRLF.
C18_SearchEncoding ==
    IsSearch(msg) =>
        /\ DataOf(encode(msg)) = ExpectedSearch(msg)
        /\ (~dumped.called /\ items = << >>) => DataOf(taken) = ExpectedSearch(msg)
        /\ (dumped.called /\ taken = << >>) => dumped.out = ExpectedSearch(msg)

\* the encoding of an empty SEARCH result was delivered
C18_Witness ==
    /\ IsSearch(msg)
    /\ msg.seqs = << >>
    /\ items = << >>
    /\ DataOf(taken) = << "*", " ", "S", "E", "A", "R", "C", "H" >> \o CRLF

IsFetch(m) == "body" \in DOMAIN m /\ m.body.verb = "Fetch"

MacroName(m) ==
    CASE m = "All" -> << "A", "L", "L" >> [] m = "Fast" -> << "F", "A", "S", "T" >> [] m = "Full" -> << "F", "U", "L", "L" >>

ExpectedItemNames(val) ==
    IF val.kind = "Macro" THEN MacroName(val.macro)
    ELSE IF Len(val.item_names) = 1 THEN ElementText(val.item_names[1])
    ELSE << "(" >> \o Joined(val.item_names, << " " >>) \o << ")" >>

\* what precedes the item names: the encoding of the same command with a
\* macro in their place, without the macro and the CRLF
FetchHead(cmd) ==
    ExceptTail(DataOf(encode([cmd EXCEPT !.body.macro_or_item_names = Macro("All")])), 5)

ExpectedFetch(cmd) ==
    FetchHead(cmd) \o ExpectedItemNames(cmd.body.macro_or_item_names) \o CRLF

\* C19: in a FETCH command a list of exactly one item name is written as
\* that name without parentheses, a list of any other length as `(`, the
\* names with one space between neighbours, `)`, and a macro as its bare
\* name.
C19_FetchItemNames ==
    IsFetch(msg) =>
        /\ DataOf(encode(msg)) = ExpectedFetch(msg)
        /\ EndsWith(FetchHead(msg), << " " >>)
        /\ (~dumped.called /\ items = << >>) => DataOf(taken) = ExpectedFetch(msg)
        /\ (dumped.called /\ taken = << >>) => dumped.out = ExpectedFetch(msg)

\* a FETCH with a one-element item-name list was delivered
C19_Witness ==
    /\ IsFetch(msg)
    /\ msg.body.macro_or_item_names.kind = "MessageDataItemNames"
    /\ Len(msg.body.macro_or_item_names.item_names) = 1
    /\ items = << >>
    /\ EndsWith(DataOf(taken), << " ", "F", "L", "A", "G", "S" >> \o CRLF)

HasBadCharset(m) ==
    /\ "ty" \in DOMAIN m
    /\ m.ty \in { "Status", "Greeting", "Continue" }
    /\ m.code.some
    /\ m.code.val.kind = "BadCharset"

ExpectedCode(code) ==
    IF code.allowed = << >> THEN << "B", "A", "D", "C", "H", "A", "R", "S", "E", "T" >>
    ELSE << "B", "A", "D", "C", "H", "A", "R", "S", "E", "T", " ", "(" >> \o Joined(code.allowed, << " " >>) \o << ")" >>

\* what precedes the bracketed code: the encoding of the same response
\* without a code, without its text and the CRLF
CodeHead(m) ==
    ExceptTail(DataOf(encode([m EXCEPT !.code = None])), Len(m.text) + 2)

ExpectedWithCode(m) ==
    CodeHead(m) \o << "[" >> \o ExpectedCode(m.code.val) \o << "]", " " >> \o m.text \o CRLF

\* C20: a BADCHARSET code with no charsets is written as the bare word
\* `BADCHARSET`, without space or parentheses; with charsets it is written
\* as `BADCHARSET (`, the charsets in the order given with one space
\* between neighbours, `)`.
C20_BadCharsetEncoding ==
    HasBadCharset(msg) =>
        /\ DataOf(encode(msg)) = ExpectedWithCode(msg)
        /\ (~dumped.called /\ items = << >>) => DataOf(taken) = ExpectedWithCode(msg)
        /\ (dumped.called /\ taken = << >>) => dumped.out = ExpectedWithCode(msg)

\* a response whose BADCHARSET code has no charsets was delivered
C20_Witness ==
    /\ HasBadCharset(msg)
    /\ msg.code.val.allowed = << >>
    /\ items = << >>
    /\ Contains(DataOf(taken), << "[", "B", "A", "D", "C", "H", "A", "R", "S", "E", "T", "]", " " >>)

-----------------------------------------------------------------------------
(* Continuation requests *)

IsContinue(m) == "ty" \in DOMAIN m /\ m.ty = "Continue"

ExpectedContinueBase64(m) ==
    << "+", " " >> \o (IF m.data = << >> THEN << >> ELSE StandardBase64(m.data)) \o CRLF

\* C21: a Continue::Base64 encodes as `+ `, the base64 of its payload and
\* CRLF, which for an empty payload is exactly `+ ` CRLF; the encoding of
\* every Continue is one Line fragment ending in CRLF.
C21_ContinueEncoding ==
    IsContinue(msg) =>
        /\ Len(encode(msg)) = 1
        /\ encode(msg)[1].kind = "Line"
        /\ EndsWith(encode(msg)[1].data, CRLF)
        /\ ~dumped.called => taken \o items = encode(msg)
        /\ msg.kind = "Base64" =>
              /\ encode(msg) = << Line(ExpectedContinueBase64(msg)) >>
              /\ (dumped.called /\ taken = << >>) => dumped.out = ExpectedContinueBase64(msg)

\* the line of a Continue::Base64 with an empty payload was delivered
C21_Witness ==
    /\ IsContinue(msg)
    /\ msg.kind = "Base64"
    /\ msg.data = << >>
    /\ taken = << Line(<< "+", " ", CR, LF >>) >>

-----------------------------------------------------------------------------
(* FETCH data items: BODY, BODYSTRUCTURE and ENVELOPE *)

IsFetchData(m) == "ty" \in DOMAIN m /\ m.ty = "Data" /\ m.kind = "Fetch"

ItemsOfKind(m, kind) == { i \in 1..Len(m.items) : m.items[i].kind = kind }

\* the body structure without its extension data
WithoutExtension(item) == [item EXCEPT !.body.extension_data = None]

FetchOfOne(m, text) ==
    << "*", " " >> \o to_string(m.seq) \o << " ", "F", "E", "T", "C", "H", " ", "(" >> \o text \o << ")" >> \o CRLF

\* C22: the encoding of a BODY data item is the one of the same body
\* structure without extension data, whatever body structure the caller
\* supplies: nothing of md5, disposition, language or location is written.
C22_BodyWithoutExtension ==
    IsFetchData(msg) =>
        /\ \A i \in ItemsOfKind(msg, "Body") :
               ElementText(msg.items[i]) = ElementText(WithoutExtension(msg.items[i]))
        /\ (Len(msg.items) = 1 /\ msg.items[1].kind = "Body" /\ ~dumped.called /\ items = << >>) =>
               DataOf(taken) = FetchOfOne(msg, ElementText(WithoutExtension(msg.items[1])))

NStringText(n) == IF n.some THEN << "\"" >> \o n.val.data \o << "\"" >> ELSE << "N", "I", "L" >>

AddressText(a) ==
    << "(" >> \o NStringText(a.name) \o << " " >> \o NStringText(a.adl) \o << " " >>
    \o NStringText(a.mailbox) \o << " " >> \o NStringText(a.host) \o << ")" >>

RECURSIVE AddressesText(_)
AddressesText(list) ==
    IF list = << >> THEN << >> ELSE AddressText(Head(list)) \o AddressesText(Tail(list))

AddressListText(list) ==
    IF list = << >> THEN << "N", "I", "L" >> ELSE << "(" >> \o AddressesText(list) \o << ")" >>

ExpectedEnvelope(env) ==
    << "(" >> \o NStringText(env.date) \o << " " >> \o NStringText(env.subject)
    \o << " " >> \o AddressListText(env.from) \o << " " >> \o AddressListText(env.sender)
    \o << " " >> \o AddressListText(env.reply_to) \o << " " >> \o AddressListText(env.to)
    \o << " " >> \o AddressListText(env.cc) \o << " " >> \o AddressListText(env.bcc)
    \o << " " >> \o NStringText(env.in_reply_to) \o << " " >> \o NStringText(env.message_id) \o << ")" >>

-----------------------------------------------------------------------------
(* C24: non-synchronizing literals *)

RECURSIVE CommandsOf(_)
CommandsOf(cmds) ==
    IF cmds = << >> THEN << >>
    ELSE << Ret("Command", 0, Head(cmds), "-") >> \o CommandsOf(Tail(cmds))

NonSyncOnly(cmds) ==
    \A i \in 1..Len(cmds) : \A j \in 1..Len(encode(cmds[i])) :
        encode(cmds[i])[j].kind = "Literal" => encode(cmds[i])[j].mode = "NonSync"

\* C24: commands whose literals are all announced as `{N+}` are framed
\* without any SendLiteralAck: the only results are the Commands, in input
\* order, and all of them once the stream is in.
C24_NonSyncFramed ==
    (input.prefix = << >> /\ NonSyncOnly(input.cmds) /\ disciplined) =>
        /\ IsPrefix(OutRets, CommandsOf(input.cmds))
        /\ (wire = << >> /\ Drained) => OutRets = CommandsOf(input.cmds)

-----------------------------------------------------------------------------
(* C25: the announcement is looked for in the line just completed *)

HasByte(line, b) == \E i \in 1..Len(line) : line[i] = b

\* C25: when the line a decode call completes ends in `}` and has no `{`
\* of its own, the call returns Err(Literal(NoOpeningBrace)); and when that
\* line does not end in `}`, the call finds no literal and no literal error,
\* whatever the lines and literal bodies before it hold.
C25_AnnouncementFromLineOnly ==
    (last.called /\ HasLine(last.pre_src, ScanOffset(last.pre_state))) =>
        \E line \in { LineAt(last.pre_src, ScanOffset(last.pre_state)) } :
            /\ (EndsInBrace(line) /\ ~HasByte(line, "{")) =>
                  last.ret = Ret("Literal", 0, NoCmd, "NoOpeningBrace")
            /\ ~EndsInBrace(line) =>
                  last.ret.tag \notin { "SendLiteralAck", "SendLiteralReject", "Literal" }

-----------------------------------------------------------------------------
(* C26: what counts as a literal size *)

\* the 1-based index of the last `{` of the line
LastOpen(line) == MaxOf({ i \in 1..Len(line) : line[i] = "{" })

\* the bytes between the last `{` and the closing `}`
Enclosed(line) == SubSeq(line, LastOpen(line) + 1, Len(line) - 1)

\* one to nine decimal digits: a size that fits in 32 bits
IsSize(raw) == raw # << >> /\ Len(raw) <= 9 /\ \A i \in 1..Len(raw) : IsDigit(raw[i])

\* C26: when the line a decode call completes ends in `{`...`}`, the call
\* returns an Ack or a Reject only when the bytes between the braces are
\* decimal digits, at least one, nothing else; for any other content it
\* returns Err(Literal(BadNumber)).
C26_SizeIsDigitsOnly ==
    (last.called /\ HasLine(last.pre_src, ScanOffset(last.pre_state))) =>
        \E line \in { LineAt(last.pre_src, ScanOffset(last.pre_state)) } :
            (EndsInBrace(line) /\ HasByte(line, "{")) =>
                IF IsSize(Enclosed(line))
                THEN last.ret.tag \in { "SendLiteralAck", "SendLiteralReject" }
                ELSE last.ret = Ret("Literal", 0, NoCmd, "BadNumber")

-----------------------------------------------------------------------------
(* C27: the empty literal *)

\* C27: a line ending in the announcement {0} is answered with
\* SendLiteralAck(0) whatever max_literal_size is, the state being
\* ReadLiteral{end of that line, 0}; the next call takes no body byte: it
\* answers what a line scan from the byte behind the announcement's CRLF
\* answers, and when the frame through the following line is a command that
\* line does not end in `}`, the answer is that Command.
C27_EmptyLiteral ==
    /\ (last.called /\ HasLine(last.pre_src, ScanOffset(last.pre_state))
        /\ WellFormedAnnouncement(LineAt(last.pre_src, ScanOffset(last.pre_state)))
        /\ AnnouncedSize(LineAt(last.pre_src, ScanOffset(last.pre_state))) = 0) =>
          /\ last.ret = Ret("SendLiteralAck", 0, NoCmd, "-")
          /\ state = ReadLiteral(LineEnd(last.pre_src, ScanOffset(last.pre_state)), 0)
          /\ src = last.pre_src
    /\ (last.called /\ last.pre_state.kind = "ReadLiteral" /\ last.pre_state.needed = 0) =>
          /\ last.iters = 2
          /\ \E d \in { decode_ReadLine(ReadLine(last.pre_state.to_consume_acc),
                                         last.pre_src, max_literal_size) } :
                 last.ret = d.ret /\ src = d.src /\ state = d.state
          /\ (HasLine(last.pre_src, last.pre_state.to_consume_acc)
              /\ ~EndsInBrace(LineAt(last.pre_src, last.pre_state.to_consume_acc))
              /\ command(Take(last.pre_src, LineEnd(last.pre_src, last.pre_state.to_consume_acc))).ok) =>
                 /\ last.ret.tag = "Command"
                 /\ src = Drop(last.pre_src, LineEnd(last.pre_src, last.pre_state.to_consume_acc))

\* with max_literal_size 0, an empty literal was acknowledged and the command
\* completed with the line behind the announcement
C27_Witness ==
    /\ max_literal_size = 0
    /\ last.called
    /\ last.prev.ret = Ret("SendLiteralAck", 0, NoCmd, "-")
    /\ last.pre_state.kind = "ReadLiteral"
    /\ last.ret.tag = "Command"
    /\ last.ret.cmd.body.verb = "Select"

-----------------------------------------------------------------------------
(* C28: the literal body is opaque *)

\* C28: a call in ReadLiteral{c, N} never looks at the N body bytes. With
\* fewer than c + N bytes buffered it returns None and changes nothing.
\* Otherwise the line scan starts at c + N: without an LF at or behind c + N
\* the call returns None in ReadLine{c + N}, whatever the body holds;
\* Err(Line(NotCrLf)) is returned only for an LF at or behind c + N; and a
\* frame is taken off the buffer only through the CRLF of the first line
\* at or behind c + N.
C28_LiteralBodyOpaque ==
    (last.called /\ last.pre_state.kind = "ReadLiteral") =>
        \E c \in { last.pre_state.to_consume_acc }, N \in { last.pre_state.needed } :
            /\ Len(last.pre_src) < c + N =>
                  last.ret = RetNone /\ state = last.pre_state /\ src = last.pre_src
            /\ (Len(last.pre_src) >= c + N /\ ~HasLf(last.pre_src, c + N)) =>
                  last.ret = RetNone /\ state = ReadLine(c + N) /\ src = last.pre_src
            /\ last.ret.tag = "Line" =>
                  /\ HasLf(last.pre_src, c + N)
                  /\ ~HasLine(last.pre_src, c + N)
            /\ (Len(last.pre_src) >= c + N /\ HasLine(last.pre_src, c + N)) =>
                  /\ last.ret.tag # "Line"
                  /\ last.ret.tag = "SendLiteralAck" =>
                        state = ReadLiteral(LineEnd(last.pre_src, c + N), last.ret.n)
                  /\ last.ret.tag \in { "Command", "SendLiteralReject" } =>
                        src = Drop(last.pre_src, LineEnd(last.pre_src, c + N))

\* a buffered body holding an LF was stepped over and the command returned
C28_Witness ==
    /\ last.called
    /\ last.pre_state.kind = "ReadLiteral"
    /\ last.pre_state.needed > 0
    /\ \E i \in (last.pre_state.to_consume_acc + 1)..
                 (last.pre_state.to_consume_acc + last.pre_state.needed) :
           last.pre_src[i] = LF
    /\ last.ret.tag = "Command"

-----------------------------------------------------------------------------
(* C29: find_crlf_inclusive *)

\* what the search answers for the bytes of buf at index skip and behind:
\* nothing without an LF; for the first LF, p bytes behind skip, p + 1 when
\* p >= 1 and the byte before the LF is CR; NotCrLf in every other case
ExpectedCrlf(skip, buf) ==
    IF \A i \in (skip + 1)..Len(buf) : buf[i] # LF THEN OkNone
    ELSE LET p == (CHOOSE i \in (skip + 1)..Len(buf) :
                      /\ buf[i] = LF
                      /\ \A j \in (skip + 1)..(i - 1) : buf[j] # LF) - 1 - skip
         IN  IF p >= 1 /\ buf[skip + p] = CR THEN OkSome(p + 1) ELSE ErrOf("NotCrLf")

\* the same answer: the same case and, for a length, the same length
SameFound(a, b) == a.tag = b.tag /\ (a.tag = "Some" => a.val = b.val)

\* C29: for every buffer handed to decode and every skip,
\* find_crlf_inclusive(skip, buf) depends on the bytes at index >= skip
\* only, is Ok(None) when none of them is LF, Ok(Some(p + 1)) for the first
\* LF at skip + p with p >= 1 and CR at skip + p - 1, and Err(NotCrLf)
\* otherwise, also for an LF at skip with CR at skip - 1.
C29_FindCrlfInclusive ==
    last.called =>
        \A skip \in 0..(Len(last.pre_src) + 1) :
            /\ SameFound(find_crlf_inclusive(skip, last.pre_src),
                         ExpectedCrlf(skip, last.pre_src))
            /\ SameFound(find_crlf_inclusive(skip, last.pre_src),
                         find_crlf_inclusive(0, Drop(last.pre_src, skip)))
            /\ (skip >= 1 /\ skip < Len(last.pre_src)
                /\ last.pre_src[skip] = CR /\ last.pre_src[skip + 1] = LF) =>
                   find_crlf_inclusive(skip, last.pre_src).tag = "Err"

\* a buffer with a CRLF further in and a bare LF before it: the search is
\* NotCrLf from the start, a length from behind the bare LF, NotCrLf from
\* the LF of the CRLF, nothing from behind it
C29_Witness ==
    /\ last.called
    /\ last.ret = Ret("Line", 0, NoCmd, "NotCrLf")
    /\ find_crlf_inclusive(0, last.pre_src).tag = "Err"
    /\ \E skip \in 1..(Len(last.pre_src) - 1) :
          /\ last.pre_src[skip] = CR /\ last.pre_src[skip + 1] = LF
          /\ find_crlf_inclusive(skip, last.pre_src).tag = "Err"
          /\ find_crlf_inclusive(skip + 1, last.pre_src).tag = "None"
          /\ \E s \in 1..(skip - 2) :
                SameFound(find_crlf_inclusive(s, last.pre_src), OkSome(skip + 1 - s))

-----------------------------------------------------------------------------
(* C30: chunking independence *)

\* decode called on buf until it returns None (or panics): the results and
\* what is left
RECURSIVE drain(_, _, _, _)
drain(st, buf, max, rets) ==
    LET d == decode(st, buf, max).call
    IN  IF d.ret.tag = "None" THEN [rets |-> rets, src |-> d.src]
        ELSE IF d.ret.tag = "Panic" THEN [rets |-> Append(rets, d.ret), src |-> d.src]
        ELSE drain(d.state, d.src, max, Append(rets, d.ret))

\* the stream from offset off on holds no framing error: every LF ends a
\* line with its CR, and every line ending in `}` ends in a well-formed
\* announcement, whose bytes, when it is acknowledged, are passed over
RECURSIVE NoFramingError(_, _, _)
NoFramingError(buf, off, max) ==
    IF ~HasLf(buf, off) THEN TRUE
    ELSE IF ~HasLine(buf, off) THEN FALSE
    ELSE IF ~EndsInBrace(LineAt(buf, off)) THEN NoFramingError(buf, LineEnd(buf, off), max)
    ELSE IF ~WellFormedAnnouncement(LineAt(buf, off)) THEN FALSE
    ELSE IF AnnouncedSize(LineAt(buf, off)) > max
    THEN NoFramingError(buf, LineEnd(buf, off), max)
    ELSE NoFramingError(buf, LineEnd(buf, off) + AnnouncedSize(LineAt(buf, off)), max)

Stream == input.prefix \o WireOf(input.cmds)

\* C30: when the stream holds no framing error, a decoder that was fed
\* the stream in any chunks and drained to None after every chunk has, once
\* the stream is in, returned the results and kept the buffer of a decoder
\* that was fed the whole stream at once and drained.
C30_ChunkingIndependence ==
    (wire = << >> /\ disciplined /\ (Drained \/ Panicked)
     /\ NoFramingError(Stream, 0, max_literal_size)) =>
        \E whole \in { drain(ImapServerCodec_new, Stream, max_literal_size, << >>) } :
            /\ OutRets = whole.rets
            /\ src = whole.src

-----------------------------------------------------------------------------
(* C31: the state after a call *)

\* C31: after every decode call a state ReadLine{consumed} has consumed no
\* larger than the length of the buffer, and consumed = 0 when the call took
\* bytes off the buffer.
C31_ReadLineWithinBuffer ==
    (last.called /\ state.kind = "ReadLine") =>
        /\ state.to_consume_acc <= Len(src)
        /\ Len(src) < Len(last.pre_src) => state.to_consume_acc = 0

-----------------------------------------------------------------------------
(* C32: the assertion on the parser's remainder *)

\* C32: no decode call panics: whenever the parser accepts the framed bytes
\* it leaves no remainder, so that assert!(rem.is_empty()) holds.
C32_RemainderEmpty ==
    last.called => last.ret.tag # "Panic"

-----------------------------------------------------------------------------
(* C33: termination *)

\* a result handed back to the caller: not None, and not a failed assertion
Returned(ret) == ret.tag \notin { "None", "Panic" }

-----------------------------------------------------------------------------
(* C34: every Line fragment ends with CRLF *)

\* the last value a command writes before its CRLF is a literal
EndsInLiteral(m) ==
    /\ "body" \in DOMAIN m
    /\ \/ m.body.verb = "Select" /\ m.body.mailbox.kind = "Other"
          /\ m.body.mailbox.inner.kind = "Literal"
       \/ m.body.verb = "Login" /\ m.body.password.kind = "Literal"

\* C34: every Line fragment of a message is non-empty and ends with CRLF;
\* a Line before a Literal ends with that literal's announcement and its
\* CRLF; the last fragment is a Line, and it is exactly CRLF when the
\* message ends right after a literal. The fragments next() hands out are
\* these.
C34_LinesEndWithCrlf ==
    \E f \in { encode(msg) } :
        /\ f # << >>
        /\ f[Len(f)].kind = "Line"
        /\ \A i \in 1..Len(f) :
              f[i].kind = "Line" =>
                  /\ f[i].data # << >>
                  /\ EndsWith(f[i].data, CRLF)
                  /\ i < Len(f) =>
                        /\ f[i + 1].kind = "Literal"
                        /\ EndsWith(f[i].data,
                                    Announcement(Len(f[i + 1].data), f[i + 1].mode))
        /\ EndsInLiteral(msg) => f[Len(f)].data = CRLF
        /\ \A i \in 1..Len(taken) :
              taken[i].kind = "Line" => taken[i].data # << >> /\ EndsWith(taken[i].data, CRLF)

\* every fragment of a command that ends right after a literal was taken:
\* the last one is the Line CRLF behind a Literal
C34_Witness ==
    /\ EndsInLiteral(msg)
    /\ items = << >>
    /\ Len(taken) >= 3
    /\ taken[Len(taken) - 1].kind = "Literal"
    /\ taken[Len(taken)] = Line(CRLF)

-----------------------------------------------------------------------------
(* C35: encoding a response through the server codec *)

\* what a decoder that encodes nothing returns on the stream, fed whole and
\* drained
ReturnedAlone == drain(ImapServerCodec_new, Stream, max_literal_size, << >>).rets

\* C35: Encoder::encode returns Ok, leaves the bytes dst held in place
\* and puts the complete wire bytes of the response behind them, and
\* leaves the decoder's state and max_literal_size as they were; so a decoder
\* whose codec also encoded responses returns, on a stream read whole and
\* drained after every chunk without a framing error, what a decoder that
\* encoded nothing returns.
C35_EncodeLeavesDecoder ==
    /\ encoded.called =>
          /\ encoded.ret = "Ok"
          /\ IsPrefix(encoded.pre_dst, dst)
          /\ dst = encoded.pre_dst \o DataOf(encode(encoded.item))
          /\ EndsWith(dst, CRLF)
          /\ state = encoded.pre_state
          /\ max_literal_size = encoded.pre_max
    /\ (wire = << >> /\ disciplined /\ Drained
        /\ \A i \in 1..Len(outs) : outs[i].ret.tag \notin { "Literal", "Line" }) =>
          OutRets = ReturnedAlone

\* a response was encoded while the decoder waited for a literal body, behind
\* bytes already in dst, and the command was returned afterwards
C35_Witness ==
    /\ encoded.count = 2
    /\ encoded.pre_state.kind = "ReadLiteral"
    /\ encoded.pre_dst # << >>
    /\ last.called
    /\ last.ret.tag = "Command"
    /\ wire = << >>
    /\ disciplined

-----------------------------------------------------------------------------
(* C36: sender and reply-to of an envelope *)

\* the envelope with an empty sender or reply-to replaced by from
WithFromDefaults(env) ==
    [env EXCEPT !.sender = IF env.sender = << >> THEN env.from ELSE env.sender,
                !.reply_to = IF env.reply_to = << >> THEN env.from ELSE env.reply_to]

\* C36: an envelope encodes as the same envelope with from in the place of
\* an empty sender and of an empty reply-to; with a from member, neither is
\* written as NIL.
C36_SenderDefaultsToFrom ==
    IsFetchData(msg) =>
        \A i \in ItemsOfKind(msg, "Envelope") :
            ElementText(msg.items[i])
              = << "E", "N", "V", "E", "L", "O", "P", "E", " " >>
                \o ExpectedEnvelope(WithFromDefaults(msg.items[i].envelope))

-----------------------------------------------------------------------------
(* C37: join_serializable *)

\* the list a message hands to join_serializable
JoinedListOf(m) ==
    IF "ty" \notin DOMAIN m THEN << >>
    ELSE IF m.ty = "Data" /\ m.kind = "Search" THEN m.seqs
    ELSE IF m.ty = "Data" /\ m.kind = "Fetch" THEN m.items
    ELSE IF m.ty \in { "Status", "Continue", "Greeting" } /\ m.code.some
            /\ m.code.val.kind = "BadCharset" THEN m.code.val.allowed
    ELSE << >>

\* separators; `;` is in no element of the model
Separators == { << " " >>, << ";" >>, << >> }

\* contexts the join may start in: fresh, or with bytes in the accumulator
\* behind a Line fragment
JoinContexts ==
    { EncodeContext_new, push_line(write_all(EncodeContext_new, << "x" >>)),
      write_all(push_line(write_all(EncodeContext_new, << "x" >>)), << "(" >>) }

CountOf(s, b) == Cardinality({ i \in 1..Len(s) : s[i] = b })

RECURSIVE FragmentsOf(_)
FragmentsOf(elements) ==
    IF elements = << >> THEN 0
    ELSE Len(encode_item(Head(elements), EncodeContext_new).items) + FragmentsOf(Tail(elements))

\* C37: join_serializable(elements, sep, ctx) leaves what ctx held in place
\* and writes behind it the elements in their order with sep between
\* neighbours: the bytes are those of the elements, each as it encodes on
\* its own, with n - 1 separators for n >= 1 elements, none before the
\* first and none behind the last; the fragments are those the elements
\* create; for no element the context is returned as it was, with no byte
\* and no fragment added.
C37_JoinSerializable ==
    \A sep \in Separators : \A ctx \in JoinContexts :
        \E elements \in { JoinedListOf(msg) } :
        \E out \in { join_serializable(elements, sep, ctx) } :
            /\ DataOf(into_items(out)) = DataOf(into_items(ctx)) \o Joined(elements, sep)
            /\ Len(out.items) = Len(ctx.items) + FragmentsOf(elements)
            /\ IsPrefix(ctx.items, out.items)
            /\ elements = << >> => out = ctx
            /\ (elements # << >> /\ sep = << ";" >>) =>
                  /\ CountOf(DataOf(into_items(out)), ";") = Len(elements) - 1
                  /\ DataOf(into_items(out))[Len(DataOf(into_items(out)))] # ";"
                  /\ DataOf(into_items(out))[Len(DataOf(into_items(ctx))) + 1] # ";"

\* a list of three elements, two of them literals, was joined and all of its
\* fragments were delivered
C37_Witness ==
    /\ IsFetchData(msg)
    /\ Len(msg.items) = 3
    /\ FragmentsOf(msg.items) = 4
    /\ Len(taken) = 5
    /\ items = << >>
    /\ ~dumped.called

====
